---- MODULE Spec2Model ----
(***************************************************************************)
(* Inventory ledger engine of src/src/table_manage.py over the remote      *)
(* tabular store reached through src/src/feishu_sheet.py.                   *)
(*                                                                         *)
(* The store is three tables: the inbound ledger, the outbound ledger and  *)
(* the stock layers (inventory_summary).  Every step of a call is one      *)
(* store request (read_bitable, write_bitable, update_bitable) together    *)
(* with the local computation that follows it up to the next request.      *)
(* A store request either succeeds or raises.                              *)
(*                                                                         *)
(* Quantities are naturals; unit costs and prices are integers counted in  *)
(* thousandths of the currency unit, so the 0.01 tolerance of              *)
(* update_inbound is 10.  A read returns the first page of the table.      *)
(***************************************************************************)
EXTENDS Integers, Sequences, FiniteSets, TLC

VARIABLES
    layers,     \* inventory_summary table; the index of a row is its record_id
    inbound,    \* inbound ledger table
    outbound,   \* outbound ledger table, rows carry their record_id
    ridCtr,     \* number of outbound ledger records the store has created
    clock,      \* datetime.now() in whole seconds
    fails,      \* store requests that raised so far
    ncalls,     \* add_inbound / add_outbound calls started so far
    call,       \* per caller: the locals of its running call
    applied,    \* history: the inbound events whose update_inbound returned True
    http,       \* FeishuSheet: the adapter call in progress, request by request
    token,      \* FeishuSheet.token: "none", or "held" while it has not expired
    mq,         \* MessageQueue: pending queue, processing set, message files
    cb          \* CircuitBreaker: state, failure_count, last_failure_time

ledgerVars == <<layers, inbound, outbound, ridCtr, clock, fails, ncalls, call, applied>>
adapterVars == <<http, token>>
serviceVars == <<mq, cb>>
otherVars == <<http, token, mq, cb>>
vars == <<layers, inbound, outbound, ridCtr, clock, fails, ncalls, call, applied,
          http, token, mq, cb>>

----------------------------------------------------------------------------
(* Bounds of the model *)

MaxCalls == 3      \* calls of add_inbound / add_outbound in a run
MaxFails == 1      \* store requests that raise in a run
MaxClock == 1      \* seconds the clock advances in a run
MaxAdapterCalls == 2   \* adapter calls followed request by request in a run
MaxRows == 101         \* stock layers in the table that is queried
MaxQueueTicks == 2     \* steps of 200 seconds the queue's clock advances in a run
MaxHolders == 2        \* consumers that hold one message at a time
MaxPending == 3        \* length of the pending queue the runs are followed to
max_queue_size == 1    \* MessageQueue(max_queue_size=...)
max_retry_count == 2   \* MessageQueue(max_retry_count=...)
MaxBreakerTicks == 3   \* steps of 30 seconds the breaker's clock advances in a run
failure_threshold == 2 \* CircuitBreaker(failure_threshold=...)
MaxHistory == 4        \* calls through the breaker in a run

----------------------------------------------------------------------------
(* Inputs *)

Procs == {"a", "b"}
SeqProcs == {"a"}

InLine(pid, wh, qty, price) == [pid |-> pid, wh |-> wh, qty |-> qty, price |-> price]
OutLine(pid, wh, qty, price) == [pid |-> pid, wh |-> wh, qty |-> qty, price |-> price]

\* data_list: one line, or two lines
Batches(lines) == {<<l>> : l \in lines} \cup {<<l, m>> : l, m \in lines}

\* Two unit costs for P1 in W1: every batch of one or two of these lines.  A
\* second product comes in alone, and goes out alone or as the second line; one
\* inbound batch has a line without quantity.
InLines == {InLine("P1", "W1", 2, 10000), InLine("P1", "W1", 1, 12000)}
OutLines == {OutLine("P1", "W1", 1, 15000), OutLine("P1", "W1", 2, 15000)}
InBatches ==
    Batches(InLines)
        \cup {<<InLine("P2", "W1", 1, 10000)>>,
              <<InLine("P1", "W1", 1, 12000), InLine("P1", "W1", 0, 12000)>>}
OutBatches ==
    Batches(OutLines)
        \cup {<<OutLine("P2", "W1", 1, 15000)>>,
              <<OutLine("P1", "W1", 1, 15000), OutLine("P2", "W1", 1, 15000)>>,
              <<OutLine("P1", "W1", 0, 15000)>>,
              <<OutLine("P1", "W1", 1, 15000), OutLine("P1", "W1", -1, 15000)>>}

\* The scenario of test_inventory_operations and of the allocation examples:
\* inbound 100 at 10 and 50 at 12, outbound 80 or 120.
ScenarioInLines == {InLine("P1", "W1", 100, 10000), InLine("P1", "W1", 50, 12000)}
ScenarioOutLines == {OutLine("P1", "W1", 80, 15000), OutLine("P1", "W1", 120, 15000)}
ScenarioInBatches == Batches(ScenarioInLines)
ScenarioOutBatches == Batches(ScenarioOutLines)

\* Unit costs around 12: 12.00, 12.001 (serialization noise) and 12.5; the same
\* cost for another product.
EpsilonInLines ==
    {InLine("P1", "W1", 1, 12000), InLine("P1", "W1", 1, 12001),
     InLine("P1", "W1", 1, 12500), InLine("P2", "W1", 1, 12000)}
EpsilonInBatches ==
    {<<l>> : l \in EpsilonInLines}
        \cup {<<InLine("P1", "W1", 1, 12001), InLine("P1", "W1", 1, 12000)>>}
EpsilonOutBatches == {<<OutLine("P1", "W1", 1, 15000)>>}

\* Calls whose row requests may time out: one line a call.
RetryInBatches == {<<InLine("P1", "W1", 1, 12000)>>}
RetryOutBatches == {<<OutLine("P1", "W1", 1, 15000)>>}

\* Calls of two callers at once: one product, one line a call.
ConcurrentInBatches == {<<l>> : l \in InLines}
ConcurrentOutBatches == {<<l>> : l \in OutLines}

----------------------------------------------------------------------------
(* Pure helpers *)

Min(a, b) == IF a <= b THEN a ELSE b
Abs(x) == IF x < 0 THEN -x ELSE x

RECURSIVE SumCur(_)
SumCur(s) == IF s = <<>> THEN 0 ELSE Head(s).cur + SumCur(Tail(s))

RECURSIVE SumQty(_)
SumQty(s) == IF s = <<>> THEN 0 ELSE Head(s).qty + SumQty(Tail(s))


----------------------------------------------------------------------------
(* RecordStore adapter: FeishuSheet *)

\* read_bitable: page_size of the one page it asks for.
page_size == 100

\* read_bitable: the records of the first page of a table, each with its
\* record_id; has_more and page_token of the response are not followed.
ReadBitable(tbl) ==
    [r \in 1..Min(Len(tbl), page_size) |-> [record_id |-> r, fields |-> tbl[r]]]

\* FeishuSheet defines read_bitable, write_bitable and update_bitable and no
\* delete_bitable_records: the attribute lookup in _rollback_records raises.
HasDeleteBitableRecords == FALSE

\* The outbound table without the record record_id.
DeleteRecord(tbl, record_id) == SelectSeq(tbl, LAMBDA row : row.rid # record_id)

\* FeishuSheet.__init__: self.max_retries.
max_retries == 3

\* The adapter calls of the ledger.
AdapterOps == {"read_bitable", "write_bitable", "update_bitable"}

\* What one HTTP request can end in: code 0, code 99991663 (the token has
\* expired), another code (the store rejects the request), a timeout, or
\* another exception of the transport or of response.json().
Responses == {"ok", "token_expired", "rejected", "timeout", "error"}

IdleHttp ==
    [op |-> "none", pc |-> "idle", retry_count |-> 0, n |-> 0,
     \* history of the adapter call: the requests sent, each with its response
     log |-> <<>>]

HttpRunning == http.pc \in {"token", "request"}

\* An adapter call starts: _get_access_token returns the token held, or asks
\* for one with a _make_request of its own; then the request of the call.
AdapterCall(op) ==
    /\ ~HttpRunning
    /\ http.n < MaxAdapterCalls
    /\ http' = [IdleHttp EXCEPT !.op = op, !.n = http.n + 1,
                                !.pc = IF token = "held" THEN "request" ELSE "token"]
    /\ UNCHANGED token
    /\ UNCHANGED ledgerVars
    /\ UNCHANGED serviceVars

\* Mutant of AfterResponse: every response code other than 0 is retried.
AfterResponseRetriesRejected(h, resp) ==
    LET logged == [h EXCEPT !.log = Append(@, [phase |-> h.pc, resp |-> resp])]
    IN  IF resp = "ok"
        THEN IF h.pc = "token"
             THEN [logged EXCEPT !.pc = "request", !.retry_count = 0]
             ELSE [logged EXCEPT !.pc = "returned"]
        ELSE IF resp \in {"token_expired", "timeout", "rejected"}
                    /\ h.retry_count < max_retries
        THEN [logged EXCEPT !.retry_count = @ + 1]
        ELSE [logged EXCEPT !.pc = "raised"]

\* Mutant of AfterResponse: the comparison with max_retries lets one more
\* retry through.
AfterResponseRetriesOnceMore(h, resp) ==
    LET logged == [h EXCEPT !.log = Append(@, [phase |-> h.pc, resp |-> resp])]
    IN  IF resp = "ok"
        THEN IF h.pc = "token"
             THEN [logged EXCEPT !.pc = "request", !.retry_count = 0]
             ELSE [logged EXCEPT !.pc = "returned"]
        ELSE IF resp \in {"token_expired", "timeout"} /\ h.retry_count <= max_retries
        THEN [logged EXCEPT !.retry_count = @ + 1]
        ELSE [logged EXCEPT !.pc = "raised"]

\* _make_request after a response: the next state of the adapter call.
AfterResponse(h, resp) ==
    LET logged == [h EXCEPT !.log = Append(@, [phase |-> h.pc, resp |-> resp])]
    IN  IF resp = "ok"
        THEN IF h.pc = "token"
             THEN [logged EXCEPT !.pc = "request", !.retry_count = 0]
             ELSE [logged EXCEPT !.pc = "returned"]
        ELSE IF resp \in {"token_expired", "timeout"} /\ h.retry_count < max_retries
        THEN [logged EXCEPT !.retry_count = @ + 1]
        ELSE [logged EXCEPT !.pc = "raised"]

\* _make_request: one HTTP request and the handling of its response.
MakeRequest ==
    /\ HttpRunning
    /\ \E resp \in Responses :
        /\ http' = AfterResponse(http, resp)
        /\ token' = IF resp = "ok" /\ http.pc = "token" THEN "held"
                    ELSE IF resp = "token_expired" /\ http.retry_count < max_retries
                    THEN "none"
                    ELSE token
    /\ UNCHANGED ledgerVars
    /\ UNCHANGED serviceVars

\* token_expire_time passes: _get_access_token will ask for a new token.
TokenLapses ==
    /\ token = "held"
    /\ token' = "none"
    /\ UNCHANGED http
    /\ UNCHANGED ledgerVars
    /\ UNCHANGED serviceVars

----------------------------------------------------------------------------
(* InventorySummaryManager *)

\* get_stock_summary: the field rows that pass the product and warehouse
\* filters; an empty filter ("" or None) lets every row pass.
PassesFilter(f, product_id, warehouse) ==
    ~(  (product_id # "" /\ f.pid # product_id)
     \/ (warehouse # "" /\ f.wh # warehouse))

GetStockSummary(items, product_id, warehouse) ==
    LET kept == SelectSeq(items, LAMBDA item : PassesFilter(item.fields, product_id, warehouse))
    IN  [r \in 1..Len(kept) |-> kept[r].fields]

\* Mutant of InsertRowDesc: the order of the sort is ascending.
RECURSIVE InsertRowAsc(_, _)
InsertRowAsc(x, s) ==
    IF s = <<>> THEN <<x>>
    ELSE IF Head(s).cost <= x.cost THEN <<Head(s)>> \o InsertRowAsc(x, Tail(s))
    ELSE <<x>> \o s

\* add_outbound: stock_records = get_stock_summary(...).sort_values('入库单价',
\* ascending=False); rows of equal cost keep their table order.
RECURSIVE InsertRowDesc(_, _)
InsertRowDesc(x, s) ==
    IF s = <<>> THEN <<x>>
    ELSE IF Head(s).cost >= x.cost THEN <<Head(s)>> \o InsertRowDesc(x, Tail(s))
    ELSE <<x>> \o s

RECURSIVE SortStockRecords(_)
SortStockRecords(df) ==
    IF df = <<>> THEN <<>>
    ELSE LET n == Len(df)
         IN  InsertRowDesc(df[n], SortStockRecords(SubSeq(df, 1, n - 1)))

\* update_inbound: the tolerance of the unit-cost comparison, 0.01.
CostEps == 10

\* Mutant of MatchesKey: the unit costs are compared for equality.
MatchesKeyExactCost(f, pid, wh, cost) ==
    f.pid = pid /\ f.wh = wh /\ f.cost = cost

\* Mutant of MatchesKey: a record without stock is passed over.
MatchesKeyWithStock(f, pid, wh, cost) ==
    f.pid = pid /\ f.wh = wh /\ Abs(f.cost - cost) < CostEps /\ f.cur > 0

\* update_inbound: does the record match the query key?
MatchesKey(f, pid, wh, cost) ==
    f.pid = pid /\ f.wh = wh /\ Abs(f.cost - cost) < CostEps

\* update_inbound: record_id of the first matching record, 0 when none matches.
RECURSIVE MatchingRecord(_, _, _, _)
MatchingRecord(items, pid, wh, cost) ==
    IF items = <<>> THEN 0
    ELSE IF MatchesKey(Head(items).fields, pid, wh, cost) THEN Head(items).record_id
    ELSE MatchingRecord(Tail(items), pid, wh, cost)

\* Mutant of InboundUpdateFields: the cumulative inbound quantity is replaced
\* by the event's quantity instead of growing by it.
InboundUpdateFieldsOverwritesCumulative(f, quantity, price) ==
    [cumIn |-> quantity,
     cur |-> f.cur + quantity,
     inVal |-> f.inVal + quantity * price]

\* Mutant of InboundUpdateFields: the inbound value grows by the quantity at
\* the unit cost of the layer instead of the unit cost of the event.
InboundUpdateFieldsValuesAtLayerCost(f, quantity, price) ==
    [cumIn |-> f.cumIn + quantity,
     cur |-> f.cur + quantity,
     inVal |-> f.inVal + quantity * f.cost]

\* update_inbound: update_fields of a matching record, computed from the
\* fields that were read.
InboundUpdateFields(f, quantity, price) ==
    [cumIn |-> f.cumIn + quantity,
     cur |-> f.cur + quantity,
     inVal |-> f.inVal + quantity * price]

\* Mutant of NewLayerRecord: the new record starts with no current stock.
NewLayerRecordWithoutStock(pid, wh, quantity, price) ==
    [pid |-> pid, wh |-> wh, cost |-> price,
     cumIn |-> quantity, cumOut |-> 0, cur |-> 0,
     inVal |-> quantity * price, outVal |-> 0]

\* update_inbound: the record created when nothing matches.
NewLayerRecord(pid, wh, quantity, price) ==
    [pid |-> pid, wh |-> wh, cost |-> price,
     cumIn |-> quantity, cumOut |-> 0, cur |-> quantity,
     inVal |-> quantity * price, outVal |-> 0]

\* update_outbound: the records of the product and warehouse with stock,
\* sorted by unit cost, descending.
RECURSIVE MatchingRecords(_, _, _)
MatchingRecords(items, pid, wh) ==
    IF items = <<>> THEN <<>>
    ELSE LET f == Head(items).fields
             rest == MatchingRecords(Tail(items), pid, wh)
         IN  IF f.pid = pid /\ f.wh = wh /\ f.cur > 0 THEN <<Head(items)>> \o rest ELSE rest

\* Mutant of InsertRecordDesc: the order of the sort is ascending.
RECURSIVE InsertRecordAsc(_, _)
InsertRecordAsc(x, s) ==
    IF s = <<>> THEN <<x>>
    ELSE IF Head(s).fields.cost <= x.fields.cost
         THEN <<Head(s)>> \o InsertRecordAsc(x, Tail(s))
    ELSE <<x>> \o s

\* update_outbound: matching_records.sort(key=入库单价, reverse=True), stable.
RECURSIVE InsertRecordDesc(_, _)
InsertRecordDesc(x, s) ==
    IF s = <<>> THEN <<x>>
    ELSE IF Head(s).fields.cost >= x.fields.cost
         THEN <<Head(s)>> \o InsertRecordDesc(x, Tail(s))
    ELSE <<x>> \o s

\* Mutant of SortMatchingRecords: the records stay in table order.
SortMatchingRecordsKeepsTableOrder(recs) == recs

RECURSIVE SortMatchingRecords(_)
SortMatchingRecords(recs) ==
    IF recs = <<>> THEN <<>>
    ELSE LET n == Len(recs)
         IN  InsertRecordDesc(recs[n], SortMatchingRecords(SubSeq(recs, 1, n - 1)))

\* Mutant of OutboundUpdateFields: the new stock subtracts the new cumulative
\* outbound quantity instead of this step's quantity.
OutboundUpdateFieldsSubtractsCumulative(f, remaining_qty, outbound_price) ==
    LET outbound_qty == Min(remaining_qty, f.cur)
    IN  [cumOut |-> f.cumOut + outbound_qty,
         cur |-> f.cur - (f.cumOut + outbound_qty),
         outVal |-> f.outVal + outbound_qty * outbound_price]

\* Mutant of OutboundUpdateFields: the whole remaining quantity is taken from
\* the record, whatever stock it was read with.
OutboundUpdateFieldsTakesRemaining(f, remaining_qty, outbound_price) ==
    [cumOut |-> f.cumOut + remaining_qty,
     cur |-> f.cur - remaining_qty,
     outVal |-> f.outVal + remaining_qty * outbound_price]

\* Mutant of OutboundUpdateFields: the outbound value grows by the quantity at
\* the unit cost of the layer instead of the sale price.
OutboundUpdateFieldsValuesAtCost(f, remaining_qty, outbound_price) ==
    LET outbound_qty == Min(remaining_qty, f.cur)
    IN  [cumOut |-> f.cumOut + outbound_qty,
         cur |-> f.cur - outbound_qty,
         outVal |-> f.outVal + outbound_qty * f.cost]

\* update_outbound: update_fields of one record of the loop, computed from the
\* fields that were read.
OutboundUpdateFields(f, remaining_qty, outbound_price) ==
    LET outbound_qty == Min(remaining_qty, f.cur)
    IN  [cumOut |-> f.cumOut + outbound_qty,
         cur |-> f.cur - outbound_qty,
         outVal |-> f.outVal + outbound_qty * outbound_price]

\* update_bitable: the fields of update_fields replace the stored ones, the
\* other fields of the record stay.
UpdateBitable(tbl, record_id, update_fields) ==
    [tbl EXCEPT ![record_id] =
        [k \in DOMAIN @ |-> IF k \in DOMAIN update_fields THEN update_fields[k] ELSE @[k]]]

----------------------------------------------------------------------------
(* Calls *)

NoRow == [rid |-> 0, no |-> 0, pid |-> "", wh |-> "", qty |-> 0, price |-> 0, cost |-> 0]

IdleCall ==
    [op |-> "none", pc |-> "idle", lines |-> <<>>, no |-> 0, i |-> 0,
     success_count |-> 0,             \* add_inbound
     record_id |-> 0,                 \* update_inbound: 0 is None
     matching_record |-> <<>>,        \* update_inbound: fields of the match
     successful_records |-> <<>>,     \* add_outbound
     stock_records |-> <<>>, j |-> 0, remaining_qty |-> 0,
     new_record |-> NoRow,            \* add_outbound: the row just written
     matching_records |-> <<>>, k |-> 0, upd_remaining |-> 0,   \* update_outbound
     result |-> FALSE, msg |-> "",
     via |-> "direct",                \* who called: the ledger API, the chat or the card
     raised |-> FALSE,                \* an exception has left the call
     retry_count |-> 0,               \* _make_request of the request under way
     product_id |-> "", warehouse |-> "",   \* get_stock_summary: the filters
     insufficient_stock |-> <<>>,     \* the lines reported as short of stock
     \* history of the call, read by the properties only
     pre |-> <<>>, preOut |-> <<>>, written |-> <<>>, failedWrite |-> 0,
     mergedAtZero |-> FALSE, preIn |-> <<>>, failedLine |-> 0, writtenFor |-> <<>>,
     startNo |-> 0, preApplied |-> 0, startedDuring |-> FALSE, preFails |-> 0]

Active(p) == call[p].pc \notin {"idle", "done"}
AllReturned == \A p \in Procs : ~Active(p)

\* The locals of a call that starts now.
StartCall(p, op, data_list) ==
    [IdleCall EXCEPT !.op = op, !.lines = data_list, !.no = clock,
                     !.pre = layers, !.preOut = outbound, !.preIn = inbound,
                     !.startNo = ncalls + 1, !.preApplied = Len(applied),
                     !.preFails = fails,
                     !.startedDuring = \E q \in Procs \ {p} : Active(q)]

\* A store request may raise while the failure budget lasts.
Outcomes == IF fails < MaxFails THEN {TRUE, FALSE} ELSE {TRUE}
CountFail(ok) == fails' = IF ok THEN fails ELSE fails + 1

Return(c, res, m) == [c EXCEPT !.pc = "done", !.result = res, !.msg = m]

\* Mutant of ExceptException: the exception leaves the call.
ExceptExceptionReraises(c, m) == [c EXCEPT !.pc = "done", !.raised = TRUE, !.msg = m]

\* add_inbound, add_outbound: except Exception as e: print(...); return False
ExceptException(c, m) == Return(c, FALSE, m)

\* datetime.now() advances by a second.
Tick ==
    /\ clock < MaxClock
    /\ clock' = clock + 1
    /\ UNCHANGED <<layers, inbound, outbound, ridCtr, fails, ncalls, call, applied>>
    /\ UNCHANGED otherVars

----------------------------------------------------------------------------
(* InboundManager.add_inbound *)

ValidInLine(l) == ~(l.qty <= 0 \/ l.price <= 0)

\* Mutant of InboundLoop: the call reports success when the loop has ended.
InboundLoopReportsSuccess(c, i) ==
    LET rest == {n \in i..Len(c.lines) : ValidInLine(c.lines[n])}
    IN  IF rest = {}
        THEN Return([c EXCEPT !.i = Len(c.lines) + 1], TRUE, "ok")
        ELSE [c EXCEPT !.i = CHOOSE n \in rest : \A m \in rest : n <= m,
                       !.pc = "in_write"]

\* The loop of add_inbound from line i on: lines with an invalid quantity or
\* price are skipped (continue); after the last line the call returns
\* success_count == len(data_list).
InboundLoop(c, i) ==
    LET rest == {n \in i..Len(c.lines) : ValidInLine(c.lines[n])}
    IN  IF rest = {}
        THEN Return([c EXCEPT !.i = Len(c.lines) + 1],
                    c.success_count = Len(c.lines),
                    IF c.success_count = Len(c.lines) THEN "ok" ELSE "skipped")
        ELSE [c EXCEPT !.i = CHOOSE n \in rest : \A m \in rest : n <= m,
                       !.pc = "in_write"]

AddInbound(p, data_list) ==
    /\ ~Active(p)
    /\ ncalls < MaxCalls
    /\ ncalls' = ncalls + 1
    /\ call' = [call EXCEPT ![p] =
           InboundLoop(StartCall(p, "in", data_list), 1)]
    /\ UNCHANGED <<layers, inbound, outbound, ridCtr, clock, fails, applied>>

\* Mutant of InboundLineFailed: the loop goes on with the next line.
InboundLineFailedContinues(c, m) == InboundLoop([c EXCEPT !.failedLine = c.i], c.i + 1)

\* A line has failed: add_inbound returns False at once.
InboundLineFailed(c, m) == Return([c EXCEPT !.failedLine = c.i], FALSE, m)

\* Mutant of InboundFailureStore: the rows and layer changes of the call are
\* taken back.
InboundFailureStoreCompensates(store, c) == [inbound |-> c.preIn, layers |-> c.pre]

\* The store (the inbound and the layer table) when add_inbound returns False:
\* the call has no compensation, nothing is deleted or restored.
InboundFailureStore(store, c) == store

\* The store after a step of add_inbound that leaves the call in state c2.
AfterInboundStep(store, c2) ==
    IF c2.pc = "done" /\ c2.failedLine # 0 THEN InboundFailureStore(store, c2) ELSE store

\* Mutant of AfterInboundWrite: the layer update follows a ledger write that
\* raised.
AfterInboundWriteIgnoresFailure(c, ok) == [c EXCEPT !.pc = "in_read"]

\* After write_bitable of the ledger row: update_inbound follows a response;
\* an exception is not a ValueError or TypeError and reaches the outer handler,
\* which returns False.
AfterInboundWrite(c, ok) ==
    IF ok THEN [c EXCEPT !.pc = "in_read", !.retry_count = 0]
    ELSE ExceptException([c EXCEPT !.failedLine = c.i, !.retry_count = 0], "error")

\* write_bitable of the inbound ledger row of line i.
InboundWrite(p) ==
    LET c == call[p]
        l == c.lines[c.i]
        row == [no |-> c.no, pid |-> l.pid, wh |-> l.wh, qty |-> l.qty,
                price |-> l.price, total |-> l.qty * l.price]
    IN  /\ c.pc = "in_write"
        /\ \E ok \in Outcomes :
            /\ CountFail(ok)
            /\ LET c2 == AfterInboundWrite(c, ok)
                   after == AfterInboundStep(
                                [inbound |-> IF ok THEN Append(inbound, row) ELSE inbound,
                                 layers |-> layers], c2)
               IN  /\ call' = [call EXCEPT ![p] = c2]
                   /\ inbound' = after.inbound
                   /\ layers' = after.layers
        /\ UNCHANGED <<outbound, ridCtr, clock, ncalls, applied>>

\* write_bitable of the inbound ledger row of line i, when the request times
\* out on the client: the store has created the row or has not; _make_request
\* sends the same request again while retry_count < max_retries and raises
\* otherwise.
InboundWriteTimeout(p) ==
    LET c == call[p]
        l == c.lines[c.i]
        row == [no |-> c.no, pid |-> l.pid, wh |-> l.wh, qty |-> l.qty,
                price |-> l.price, total |-> l.qty * l.price]
    IN  /\ c.pc = "in_write"
        /\ \E created \in BOOLEAN :
            LET c2 == IF c.retry_count < max_retries
                      THEN [c EXCEPT !.retry_count = @ + 1]
                      ELSE AfterInboundWrite(c, FALSE)
                after == AfterInboundStep(
                             [inbound |-> IF created THEN Append(inbound, row) ELSE inbound,
                              layers |-> layers], c2)
            IN  /\ call' = [call EXCEPT ![p] = c2]
                /\ inbound' = after.inbound
                /\ layers' = after.layers
        /\ UNCHANGED <<outbound, ridCtr, clock, fails, ncalls, applied>>
        /\ UNCHANGED otherVars

\* update_inbound: read_bitable and the search for the matching record.
InboundRead(p) ==
    LET c == call[p]
        l == c.lines[c.i]
        items == ReadBitable(layers)
        rid == MatchingRecord(items, l.pid, l.wh, l.price)
    IN  /\ c.pc = "in_read"
        /\ \E ok \in Outcomes :
            /\ CountFail(ok)
            /\ LET c2 == IF ok
                         THEN [c EXCEPT !.pc = "in_save", !.record_id = rid,
                                        !.matching_record =
                                            IF rid = 0 THEN <<>> ELSE items[rid].fields]
                         ELSE InboundLineFailed(c, "update_failed")
                   after == AfterInboundStep([inbound |-> inbound, layers |-> layers], c2)
               IN  /\ call' = [call EXCEPT ![p] = c2]
                   /\ inbound' = after.inbound
                   /\ layers' = after.layers
        /\ UNCHANGED <<outbound, ridCtr, clock, ncalls, applied>>

\* update_inbound: update_bitable of the match, or write_bitable of a new layer.
InboundSave(p) ==
    LET c == call[p]
        l == c.lines[c.i]
        saved == IF c.record_id # 0
                 THEN UpdateBitable(layers, c.record_id,
                          InboundUpdateFields(c.matching_record, l.qty, l.price))
                 ELSE Append(layers, NewLayerRecord(l.pid, l.wh, l.qty, l.price))
    IN  /\ c.pc = "in_save"
        /\ \E ok \in Outcomes :
            /\ CountFail(ok)
            /\ LET c2 == IF ok
                         THEN InboundLoop(
                                  [c EXCEPT !.success_count = @ + 1,
                                            !.mergedAtZero =
                                                @ \/ (c.record_id # 0
                                                         /\ c.matching_record.cur = 0)],
                                  c.i + 1)
                         ELSE InboundLineFailed(c, "update_failed")
                   after == AfterInboundStep(
                                [inbound |-> inbound,
                                 layers |-> IF ok THEN saved ELSE layers], c2)
               IN  /\ call' = [call EXCEPT ![p] = c2]
                   /\ inbound' = after.inbound
                   /\ layers' = after.layers
                   /\ applied' = IF ok THEN Append(applied, l) ELSE applied
        /\ UNCHANGED <<outbound, ridCtr, clock, ncalls>>

----------------------------------------------------------------------------
(* OutboundManager.add_outbound *)

\* Mutant of RollbackRecords: the rollback also gives the quantity of every
\* successful record back to the layer of its unit cost.
RECURSIVE RollbackRecordsRestoresLayers(_, _)
RollbackRecordsRestoresLayers(store, successful_records) ==
    IF successful_records = <<>> THEN store
    ELSE LET row == Head(successful_records)
         IN  RollbackRecordsRestoresLayers(
                 [store EXCEPT !.layers =
                     [r \in 1..Len(@) |->
                         IF @[r].pid = row.pid /\ @[r].wh = row.wh /\ @[r].cost = row.cost
                         THEN [@[r] EXCEPT !.cumOut = @ - row.qty, !.cur = @ + row.qty,
                                           !.outVal = @ - row.qty * row.price]
                         ELSE @[r]]],
                 Tail(successful_records))

\* Mutant of RollbackRecords: the rollback also removes the layers that hold no
\* stock.
RollbackRecordsDropsEmptyLayers(store, successful_records) ==
    IF successful_records = <<>> THEN store
    ELSE [store EXCEPT !.layers = SelectSeq(@, LAMBDA f : f.cur > 0)]

\* _rollback_records on the store (the outbound and the layer table):
\* delete_bitable_records for every successful record; an exception of one
\* deletion is caught and the loop goes on.  No layer is written.
RECURSIVE RollbackRecords(_, _)
RollbackRecords(store, successful_records) ==
    IF successful_records = <<>> THEN store
    ELSE RollbackRecords(
             IF HasDeleteBitableRecords
             THEN [store EXCEPT !.outbound = DeleteRecord(@, Head(successful_records).rid)]
             ELSE store,
             Tail(successful_records))

\* The store after a step of the commit phase that leaves the call in state
\* c2: a failed call has run _rollback_records.
AfterCommitStep(store, c, c2) ==
    IF c2.pc = "done" /\ ~c2.result
    THEN RollbackRecords(store, c.successful_records)
    ELSE store

\* Mutant of CheckLine: the comparison of the total stock with the required
\* quantity is missing.
CheckLineWithoutStockComparison(stock_df, required_qty) ==
    IF stock_df = <<>> THEN "no_stock_record"
    ELSE IF required_qty <= 0 THEN "invalid_qty"
    ELSE "pass"

\* Mutant of CheckLine: any requested quantity is accepted.
CheckLineAcceptsAnyQuantity(stock_df, required_qty) ==
    IF stock_df = <<>> THEN "no_stock_record"
    ELSE IF SumCur(stock_df) < required_qty THEN "insufficient"
    ELSE "pass"

\* Validation phase: the checks of one line against its stock_df.
CheckLine(stock_df, required_qty) ==
    IF stock_df = <<>> THEN "no_stock_record"
    ELSE IF SumCur(stock_df) < required_qty THEN "insufficient"
    ELSE IF required_qty <= 0 THEN "invalid_qty"
    ELSE "pass"

AddOutbound(p, data_list) ==
    /\ ~Active(p)
    /\ ncalls < MaxCalls
    /\ ncalls' = ncalls + 1
    /\ call' = [call EXCEPT ![p] =
           [StartCall(p, "out", data_list) EXCEPT !.pc = "out_check", !.i = 1]]
    /\ UNCHANGED <<layers, inbound, outbound, ridCtr, clock, fails, applied>>

\* Validation phase, line i: get_stock_summary and the checks.  A read that
\* raises makes get_stock_summary return an empty frame.
OutboundCheck(p) ==
    LET c == call[p]
        l == c.lines[c.i]
        stock_df == GetStockSummary(ReadBitable(layers), l.pid, l.wh)
    IN  /\ c.pc = "out_check"
        /\ \E ok \in Outcomes :
            /\ CountFail(ok)
            /\ LET verdict == CheckLine(IF ok THEN stock_df ELSE <<>>, l.qty)
               IN  call' = [call EXCEPT ![p] =
                       IF verdict = "insufficient"
                       THEN Return([c EXCEPT !.insufficient_stock =
                                        <<[line |-> c.i, required |-> l.qty,
                                           current |-> SumCur(stock_df)]>>],
                                   FALSE, verdict)
                       ELSE IF verdict # "pass" THEN Return(c, FALSE, verdict)
                       ELSE IF c.i < Len(c.lines) THEN [c EXCEPT !.i = c.i + 1]
                       ELSE [c EXCEPT !.i = 1, !.pc = "out_snapshot"]]
        /\ UNCHANGED <<layers, inbound, outbound, ridCtr, clock, ncalls, applied>>

\* Mutant of OutboundLoop: the next line walks the stock_records of the line
\* before it instead of reading the stock again.
OutboundLoopKeepsSnapshot(c) ==
    LET withStock == {n \in c.j..Len(c.stock_records) : ~(c.stock_records[n].cur <= 0)}
        anyStock == {n \in 1..Len(c.stock_records) : ~(c.stock_records[n].cur <= 0)}
    IN  IF ~(c.remaining_qty <= 0) /\ withStock # {}
        THEN [c EXCEPT !.j = CHOOSE n \in withStock : \A m \in withStock : n <= m,
                       !.pc = "out_write"]
        ELSE IF c.remaining_qty > 0 THEN Return(c, FALSE, "insufficient")
        ELSE IF c.i < Len(c.lines) /\ anyStock # {}
        THEN [c EXCEPT !.i = c.i + 1, !.remaining_qty = c.lines[c.i + 1].qty,
                       !.j = CHOOSE n \in anyStock : \A m \in anyStock : n <= m,
                       !.pc = "out_write"]
        ELSE Return(c, TRUE, "ok")

\* Mutant of OutboundLoop: the check of remaining_qty after the loop is missing.
OutboundLoopIgnoresRemainder(c) ==
    LET withStock == {n \in c.j..Len(c.stock_records) : ~(c.stock_records[n].cur <= 0)}
    IN  IF ~(c.remaining_qty <= 0) /\ withStock # {}
        THEN [c EXCEPT !.j = CHOOSE n \in withStock : \A m \in withStock : n <= m,
                       !.pc = "out_write"]
        ELSE IF c.i < Len(c.lines) THEN [c EXCEPT !.i = c.i + 1, !.pc = "out_snapshot"]
        ELSE Return(c, TRUE, "ok")

\* Commit phase: the loop over stock_records from position c.j on, then the
\* check of remaining_qty and the step to the next line.
OutboundLoop(c) ==
    LET withStock == {n \in c.j..Len(c.stock_records) : ~(c.stock_records[n].cur <= 0)}
    IN  IF ~(c.remaining_qty <= 0) /\ withStock # {}
        THEN [c EXCEPT !.j = CHOOSE n \in withStock : \A m \in withStock : n <= m,
                       !.pc = "out_write"]
        ELSE IF c.remaining_qty > 0 THEN Return(c, FALSE, "insufficient")
        ELSE IF c.i < Len(c.lines) THEN [c EXCEPT !.i = c.i + 1, !.pc = "out_snapshot"]
        ELSE Return(c, TRUE, "ok")

\* Commit phase, line i: get_stock_summary sorted by unit cost, descending.  A
\* read that raises yields a frame without columns, on which sort_values raises.
OutboundSnapshot(p) ==
    LET c == call[p]
        l == c.lines[c.i]
        stock_records == SortStockRecords(GetStockSummary(ReadBitable(layers), l.pid, l.wh))
    IN  /\ c.pc = "out_snapshot"
        /\ \E ok \in Outcomes :
            /\ CountFail(ok)
            /\ LET c2 == IF ok
                         THEN OutboundLoop([c EXCEPT !.stock_records = stock_records,
                                                     !.j = 1, !.remaining_qty = l.qty])
                         ELSE ExceptException(c, "error")
                   after == AfterCommitStep([outbound |-> outbound, layers |-> layers], c, c2)
               IN  /\ call' = [call EXCEPT ![p] = c2]
                   /\ outbound' = after.outbound
                   /\ layers' = after.layers
        /\ UNCHANGED <<inbound, ridCtr, clock, ncalls, applied>>

\* Commit phase: write_bitable of the outbound ledger row for stock record j.
OutboundWrite(p) ==
    LET c == call[p]
        l == c.lines[c.i]
        stock == c.stock_records[c.j]
        outbound_qty == Min(c.remaining_qty, stock.cur)
        row == [rid |-> ridCtr + 1, no |-> c.no, pid |-> l.pid, wh |-> l.wh,
                qty |-> outbound_qty, price |-> l.price, cost |-> stock.cost]
    IN  /\ c.pc = "out_write"
        /\ \E ok \in Outcomes :
            /\ CountFail(ok)
            /\ IF ok
               THEN /\ outbound' = Append(outbound, row)
                    /\ layers' = layers
                    /\ ridCtr' = ridCtr + 1
                    /\ call' = [call EXCEPT ![p] =
                           [c EXCEPT !.pc = "out_upd_read", !.new_record = row,
                                     !.written = Append(@, row),
                                     !.writtenFor = Append(@, c.i)]]
               ELSE LET c2 == ExceptException([c EXCEPT !.failedWrite = Len(c.written) + 1],
                                              "error")
                        after == AfterCommitStep([outbound |-> outbound, layers |-> layers],
                                                 c, c2)
                    IN  /\ outbound' = after.outbound
                        /\ layers' = after.layers
                        /\ ridCtr' = ridCtr
                        /\ call' = [call EXCEPT ![p] = c2]
        /\ UNCHANGED <<inbound, clock, ncalls, applied>>

\* update_outbound: read_bitable, the selection of the records with stock and
\* their sort.
OutboundUpdateRead(p) ==
    LET c == call[p]
        items == ReadBitable(layers)
        matching_records ==
            SortMatchingRecords(MatchingRecords(items, c.new_record.pid, c.new_record.wh))
    IN  /\ c.pc = "out_upd_read"
        /\ \E ok \in Outcomes :
            /\ CountFail(ok)
            /\ LET c2 == IF ok /\ items # <<>> /\ matching_records # <<>>
                         THEN [c EXCEPT !.pc = "out_upd_write",
                                        !.matching_records = matching_records,
                                        !.k = 1, !.upd_remaining = c.new_record.qty]
                         ELSE Return(c, FALSE, "update_failed")
                   after == AfterCommitStep([outbound |-> outbound, layers |-> layers], c, c2)
               IN  /\ call' = [call EXCEPT ![p] = c2]
                   /\ outbound' = after.outbound
                   /\ layers' = after.layers
        /\ UNCHANGED <<inbound, ridCtr, clock, ncalls, applied>>

\* update_outbound: update_bitable of matching record k, then the rest of the
\* loop; back in add_outbound the row joins successful_records.
OutboundUpdateWrite(p) ==
    LET c == call[p]
        record == c.matching_records[c.k]
        outbound_qty == Min(c.upd_remaining, record.fields.cur)
        left == c.upd_remaining - outbound_qty
    IN  /\ c.pc = "out_upd_write"
        /\ \E ok \in Outcomes :
            /\ CountFail(ok)
            /\ LET c2 ==
                     IF ~ok THEN Return(c, FALSE, "update_failed")
                     ELSE IF ~(left <= 0) /\ c.k < Len(c.matching_records)
                     THEN [c EXCEPT !.k = c.k + 1, !.upd_remaining = left]
                     ELSE IF left > 0 THEN Return(c, FALSE, "update_failed")
                     ELSE OutboundLoop(
                              [c EXCEPT !.successful_records = Append(@, c.new_record),
                                        !.remaining_qty = @ - c.new_record.qty,
                                        !.upd_remaining = left,
                                        !.j = c.j + 1])
                   updated == IF ok
                              THEN UpdateBitable(layers, record.record_id,
                                       OutboundUpdateFields(record.fields, c.upd_remaining,
                                                            c.new_record.price))
                              ELSE layers
                   after == AfterCommitStep([outbound |-> outbound, layers |-> updated], c, c2)
               IN  /\ call' = [call EXCEPT ![p] = c2]
                   /\ layers' = after.layers
                   /\ outbound' = after.outbound
        /\ UNCHANGED <<inbound, ridCtr, clock, ncalls, applied>>

----------------------------------------------------------------------------
(* Callers of add_outbound: the chat and the outbound card *)

\* _check_stock: (is the stock sufficient, the current stock); no stock record,
\* or a read that raised, gives (False, 0).
CheckStock(stock_df, required_qty) ==
    IF stock_df = <<>> THEN [ok |-> FALSE, current |-> 0]
    ELSE [ok |-> SumCur(stock_df) >= required_qty, current |-> SumCur(stock_df)]

\* The stock check of record n of data; failed holds the records whose read
\* raised.
StockCheckOf(data, failed, n) ==
    CheckStock(IF n \in failed THEN <<>>
               ELSE GetStockSummary(ReadBitable(layers), data[n].pid, data[n].wh),
               data[n].qty)

\* DeepSeekChat._write_inventory_record: insufficient_stock collects every
\* record whose stock check fails.
RECURSIVE ChatInsufficientStock(_, _, _)
ChatInsufficientStock(data, failed, n) ==
    IF n > Len(data) THEN <<>>
    ELSE LET check == StockCheckOf(data, failed, n)
         IN  (IF check.ok THEN <<>>
              ELSE <<[line |-> n, required |-> data[n].qty, current |-> check.current]>>)
                 \o ChatInsufficientStock(data, failed, n + 1)

\* MessageProcessor.process_messages, outbound form: the loop over the products
\* of the form stops (break) at the first one whose stock check fails.
RECURSIVE CardInsufficientStock(_, _, _)
CardInsufficientStock(data, failed, n) ==
    IF n > Len(data) THEN <<>>
    ELSE LET check == StockCheckOf(data, failed, n)
         IN  IF ~(data[n].qty > 0 /\ data[n].price > 0)
             THEN CardInsufficientStock(data, failed, n + 1)
             ELSE IF check.ok THEN CardInsufficientStock(data, failed, n + 1)
             ELSE <<[line |-> n, required |-> data[n].qty, current |-> check.current]>>

\* The reads of a stock check that may raise: as many as the failure budget
\* allows.
FailedReads(data) ==
    {F \in SUBSET (1..Len(data)) : fails + Cardinality(F) <= MaxFails}

\* A caller's stock check followed by add_outbound, or by the report of the
\* records short of stock.
OutboundVia(p, via, data, report, failed) ==
    /\ ~Active(p)
    /\ ncalls < MaxCalls
    /\ ncalls' = ncalls + 1
    /\ fails' = fails + Cardinality(failed)
    /\ call' = [call EXCEPT ![p] =
           IF report # <<>>
           THEN Return([StartCall(p, "out", data) EXCEPT
                            !.via = via, !.insufficient_stock = report],
                       FALSE, "insufficient_reported")
           ELSE [StartCall(p, "out", data) EXCEPT
                     !.via = via, !.pc = "out_check", !.i = 1]]
    /\ UNCHANGED <<layers, inbound, outbound, ridCtr, clock, applied>>
    /\ UNCHANGED otherVars

\* DeepSeekChat._write_inventory_record with outbound records.
WriteInventoryRecord(p, data) ==
    \E failed \in FailedReads(data) :
        OutboundVia(p, "chat", data, ChatInsufficientStock(data, failed, 1), failed)

\* MessageProcessor.process_messages: submit of the outbound form.
SubmitOutboundForm(p, data) ==
    \E failed \in FailedReads(data) :
        OutboundVia(p, "card", data, CardInsufficientStock(data, failed, 1), failed)

----------------------------------------------------------------------------
(* Stock query *)

\* get_stock_summary called on its own: the rows of the page that pass the
\* filters; an exception of the read is caught and an empty frame returned.
StockQuery(p, product_id, warehouse) ==
    /\ ~Active(p)
    /\ ncalls < MaxCalls
    /\ ncalls' = ncalls + 1
    /\ \E ok \in Outcomes :
        /\ CountFail(ok)
        /\ call' = [call EXCEPT ![p] =
               Return([StartCall(p, "query", <<>>) EXCEPT
                           !.product_id = product_id, !.warehouse = warehouse,
                           !.stock_records =
                               IF ok
                               THEN GetStockSummary(ReadBitable(layers), product_id, warehouse)
                               ELSE <<>>],
                      ok, IF ok THEN "ok" ELSE "error")]
    /\ UNCHANGED <<layers, inbound, outbound, ridCtr, clock, applied>>
    /\ UNCHANGED otherVars

\* A layer table of n layers, as n inbound events of n unit costs leave it.
LayerRow(r) ==
    NewLayerRecord(IF r % 2 = 1 THEN "P1" ELSE "P2", IF r % 3 = 0 THEN "W2" ELSE "W1",
                   1, 10000 + 20 * r)

LayerTable(n) == [r \in 1..n |-> LayerRow(r)]

----------------------------------------------------------------------------
(* MessageQueue *)

Msgs == {"m1", "m2"}
Priorities == {0, 1}

NoFile == [status |-> "none", priority |-> 0, retry_count |-> 0, timestamp |-> 0]

\* MessageQueue.__init__ on an empty queue_dir.  held counts, for every
\* message, the consumers that dequeue has handed it to and that have not yet
\* marked it; now is time.time() in steps of 200 seconds.
EmptyQueue ==
    [pending |-> <<>>, processing |-> {}, files |-> [m \in Msgs |-> NoFile],
     held |-> [m \in Msgs |-> 0], now |-> 0]

PendingIds(q) == {q[n].id : n \in 1..Len(q)}

\* _save_message_to_file: the file of the message.
FileOf(message, status) ==
    [status |-> status, priority |-> message.priority,
     retry_count |-> message.retry_count, timestamp |-> message.timestamp]

\* QueueMessage.from_dict of a message file.
MessageOf(id, file) ==
    [id |-> id, priority |-> file.priority, retry_count |-> file.retry_count,
     timestamp |-> file.timestamp]

InsertAt(q, i, message) == SubSeq(q, 1, i - 1) \o <<message>> \o SubSeq(q, i, Len(q))

\* _insert_by_priority: before the first message of lower priority when the
\* priority is above 0, at the end otherwise.
InsertByPriority(q, message) ==
    LET lower == {i \in 1..Len(q) : q[i].priority < message.priority}
    IN  IF message.priority > 0 /\ lower # {}
        THEN InsertAt(q, CHOOSE i \in lower : \A j \in lower : i <= j, message)
        ELSE Append(q, message)

\* _remove_oldest_low_priority_message: the index of the message it removes,
\* the last one of priority 0; 0 when there is none.
LowPriorityIndex(q) ==
    LET low == {i \in 1..Len(q) : q[i].priority = 0}
    IN  IF low = {} THEN 0 ELSE CHOOSE i \in low : \A j \in low : j <= i

RemoveAt(q, i) == SubSeq(q, 1, i - 1) \o SubSeq(q, i + 1, Len(q))

\* enqueue of a new message id: the size check, the insertion and the file.
Enqueue(id, priority) ==
    /\ mq.files[id].status = "none" /\ id \notin PendingIds(mq.pending) /\ mq.held[id] = 0
    /\ LET message == [id |-> id, priority |-> priority, retry_count |-> 0,
                       timestamp |-> mq.now]
           full == Len(mq.pending) >= max_queue_size
           i == IF full THEN LowPriorityIndex(mq.pending) ELSE 0
           kept == IF i # 0 THEN RemoveAt(mq.pending, i) ELSE mq.pending
           files1 == IF i # 0 THEN [mq.files EXCEPT ![mq.pending[i].id] = NoFile]
                     ELSE mq.files
       IN  mq' = [mq EXCEPT !.pending = InsertByPriority(kept, message),
                            !.files = [files1 EXCEPT ![id] = FileOf(message, "pending")]]
    /\ Len(mq'.pending) <= MaxPending
    /\ UNCHANGED <<ledgerVars, adapterVars, cb>>

\* dequeue: the first pending message goes to the consumer.
Dequeue ==
    /\ mq.pending # <<>>
    /\ LET message == Head(mq.pending)
       IN  /\ mq.held[message.id] < MaxHolders
           /\ mq' = [mq EXCEPT !.pending = Tail(@),
                                !.processing = @ \cup {message.id},
                                !.files[message.id] = FileOf(message, "processing"),
                                !.held[message.id] = @ + 1]
    /\ UNCHANGED <<ledgerVars, adapterVars, cb>>

\* mark_completed(message_id) by a consumer that holds the message.
MarkCompleted(id) ==
    /\ mq.held[id] > 0
    /\ mq' = [mq EXCEPT !.processing = @ \ {id},
                        !.files[id] = NoFile,
                        !.held[id] = @ - 1]
    /\ UNCHANGED <<ledgerVars, adapterVars, cb>>

\* mark_failed(message_id, error_message, retry) by a consumer that holds the
\* message.
MarkFailed(id, retry) ==
    /\ mq.held[id] > 0
    /\ IF mq.files[id].status = "none"
       THEN mq' = [mq EXCEPT !.held[id] = @ - 1]
       ELSE LET read == MessageOf(id, mq.files[id])
                counted == [read EXCEPT !.retry_count = @ + 1]
            IN  IF retry /\ counted.retry_count < max_retry_count
                THEN LET message == [counted EXCEPT
                                        !.priority = IF @ - 1 > 0 THEN @ - 1 ELSE 0]
                     IN  mq' = [mq EXCEPT !.processing = @ \ {id},
                                          !.pending = InsertByPriority(@, message),
                                          !.files[id] = FileOf(message, "pending"),
                                          !.held[id] = @ - 1]
                ELSE mq' = [mq EXCEPT !.processing = @ \ {id},
                                      !.files[id] = FileOf(counted, "failed"),
                                      !.held[id] = @ - 1]
    /\ Len(mq'.pending) <= MaxPending
    /\ UNCHANGED <<ledgerVars, adapterVars, cb>>

\* reset_stuck_messages, one file: status processing and timestamp before
\* time.time() - 300.
Stuck(q, id) ==
    /\ q.files[id].status = "processing"
    /\ q.files[id].timestamp * 200 < q.now * 200 - 300

ResetFile(q, id) ==
    IF Stuck(q, id)
    THEN [q EXCEPT !.files[id].status = "pending",
                   !.processing = @ \ {id},
                   !.pending = InsertByPriority(@, MessageOf(id, q.files[id]))]
    ELSE q

\* reset_stuck_messages: the files in the order of glob.
RECURSIVE ResetFiles(_, _)
ResetFiles(q, order) ==
    IF order = <<>> THEN q ELSE ResetFiles(ResetFile(q, Head(order)), Tail(order))

GlobOrders == {o \in [1..Cardinality(Msgs) -> Msgs] : \A i, j \in DOMAIN o : i # j => o[i] # o[j]}

ResetStuckMessages ==
    /\ \E id \in Msgs : Stuck(mq, id)
    /\ \E order \in GlobOrders : mq' = ResetFiles(mq, order)
    /\ Len(mq'.pending) <= MaxPending
    /\ UNCHANGED <<ledgerVars, adapterVars, cb>>

\* time.time() advances by 200 seconds.
QueueTick ==
    /\ mq.now < MaxQueueTicks
    /\ mq' = [mq EXCEPT !.now = @ + 1]
    /\ UNCHANGED <<ledgerVars, adapterVars, cb>>

----------------------------------------------------------------------------
(* CircuitBreaker *)

\* CircuitBreaker.__init__: recovery_timeout
recovery_timeout == 60

\* CircuitBreaker.__init__; now is time.time() in steps of 30 seconds, 0 as
\* last_failure_time is None.  history lists, for every call, whether the
\* wrapped function ran, how it ended, and the state the call found.
NewBreaker ==
    [state |-> "CLOSED", failure_count |-> 0, last_failure_time |-> 0, now |-> 1,
     history |-> <<>>]

\* call, after func has returned.
AfterSuccess(b) ==
    IF b.state = "HALF_OPEN" THEN [b EXCEPT !.state = "CLOSED", !.failure_count = 0] ELSE b

\* call, after func has raised expected_exception.
AfterFailure(b) ==
    LET counted == [b EXCEPT !.failure_count = @ + 1, !.last_failure_time = b.now]
    IN  IF counted.failure_count >= failure_threshold
        THEN [counted EXCEPT !.state = "OPEN"]
        ELSE counted

\* Mutant of Admit: an OPEN breaker lets every call through.
AdmitAlways(b) == IF b.state = "OPEN" THEN [b EXCEPT !.state = "HALF_OPEN"] ELSE b

\* call, before func: an OPEN breaker moves to HALF_OPEN when recovery_timeout
\* has passed since the last failure, and refuses the call otherwise.
Admit(b) ==
    IF b.state = "OPEN"
    THEN IF b.now * 30 - b.last_failure_time * 30 > recovery_timeout
         THEN [b EXCEPT !.state = "HALF_OPEN"]
         ELSE [b EXCEPT !.state = "REFUSED"]
    ELSE b

\* CircuitBreaker.call(func): func returns or raises.
BreakerCall(outcome) ==
    /\ Len(cb.history) < MaxHistory
    /\ LET admitted == Admit(cb)
           refused == admitted.state = "REFUSED"
           after == IF refused THEN cb
                    ELSE IF outcome = "returns" THEN AfterSuccess(admitted)
                    ELSE AfterFailure(admitted)
           entry == [found |-> cb.state, last |-> cb.last_failure_time, at |-> cb.now,
                     ran |-> ~refused, ranIn |-> admitted.state,
                     outcome |-> IF refused THEN "NetworkError"
                                 ELSE IF outcome = "returns" THEN "returned" ELSE "raised",
                     left |-> after.state, count |-> after.failure_count]
       IN  cb' = [after EXCEPT !.history = Append(@, entry)]
    /\ UNCHANGED <<ledgerVars, adapterVars, mq>>

\* time.time() advances by 30 seconds.
BreakerTick ==
    /\ cb.now < MaxBreakerTicks + 1
    /\ cb' = [cb EXCEPT !.now = @ + 1]
    /\ UNCHANGED <<ledgerVars, adapterVars, mq>>

----------------------------------------------------------------------------
(* Specification: calls run one at a time *)

Init ==
    /\ layers = <<>>
    /\ inbound = <<>>
    /\ outbound = <<>>
    /\ ridCtr = 0
    /\ clock = 0
    /\ fails = 0
    /\ ncalls = 0
    /\ call = [p \in Procs |-> IdleCall]
    /\ applied = <<>>
    /\ http = IdleHttp
    /\ token = "none"
    /\ mq = EmptyQueue
    /\ cb = NewBreaker

Step(p) ==
    \/ InboundWrite(p)
    \/ InboundRead(p)
    \/ InboundSave(p)
    \/ OutboundCheck(p)
    \/ OutboundSnapshot(p)
    \/ OutboundWrite(p)
    \/ OutboundUpdateRead(p)
    \/ OutboundUpdateWrite(p)

\* One caller, whose next call starts when the last one has returned.
NextOn(inBatches, outBatches) ==
    /\ \/ \E data_list \in inBatches : \E p \in SeqProcs : AllReturned /\ AddInbound(p, data_list)
       \/ \E data_list \in outBatches : \E p \in SeqProcs : AllReturned /\ AddOutbound(p, data_list)
       \/ \E p \in SeqProcs : Step(p)
    /\ UNCHANGED otherVars

Next == NextOn(InBatches, OutBatches)

Spec == Init /\ [][Next]_vars

ScenarioNext == NextOn(ScenarioInBatches, ScenarioOutBatches)

SpecScenario == Init /\ [][ScenarioNext]_vars

\* The same caller while the seconds of the clock pass.
ClockNext == Next \/ Tick

SpecClock == Init /\ [][ClockNext]_vars

\* Two callers: a call starts whenever its caller has none running, and the
\* store requests of the running calls interleave in any order.
ConcurrentNext ==
    /\ \/ \E data_list \in ConcurrentInBatches : \E p \in Procs : AddInbound(p, data_list)
       \/ \E data_list \in ConcurrentOutBatches : \E p \in Procs : AddOutbound(p, data_list)
       \/ \E p \in Procs : Step(p)
    /\ UNCHANGED otherVars

SpecConcurrent == Init /\ [][ConcurrentNext]_vars

\* The same caller when outbound batches also arrive through the chat and the
\* outbound card, each with its own stock check in front of add_outbound.
EntryNext ==
    \/ Next
    \/ \E data \in OutBatches : \E p \in SeqProcs : AllReturned /\ WriteInventoryRecord(p, data)
    \/ \E data \in OutBatches : \E p \in SeqProcs : AllReturned /\ SubmitOutboundForm(p, data)

SpecEntry == Init /\ [][EntryNext]_vars

\* The same caller when requests that create inbound ledger rows may time out.
RetryNext ==
    \/ NextOn(RetryInBatches, RetryOutBatches)
    \/ \E p \in SeqProcs : InboundWriteTimeout(p)

SpecRetry == Init /\ [][RetryNext]_vars

\* The message queue under any sequence of its operations.
QueueNext ==
    \/ \E id \in Msgs : \E priority \in Priorities : Enqueue(id, priority)
    \/ Dequeue
    \/ \E id \in Msgs : MarkCompleted(id)
    \/ \E id \in Msgs : \E retry \in BOOLEAN : MarkFailed(id, retry)
    \/ ResetStuckMessages
    \/ QueueTick

SpecQueue == Init /\ [][QueueNext]_vars

\* Calls through one circuit breaker as time passes.
BreakerNext ==
    \/ \E outcome \in {"returns", "raises"} : BreakerCall(outcome)
    \/ BreakerTick

SpecBreaker == Init /\ [][BreakerNext]_vars

\* Queries of a layer table of up to MaxRows layers.
QueryInit ==
    /\ layers \in {LayerTable(n) : n \in 0..MaxRows}
    /\ inbound = <<>>
    /\ outbound = <<>>
    /\ ridCtr = 0
    /\ clock = 0
    /\ fails = 0
    /\ ncalls = 0
    /\ call = [p \in Procs |-> IdleCall]
    /\ applied = <<>>
    /\ http = IdleHttp
    /\ token = "none"
    /\ mq = EmptyQueue
    /\ cb = NewBreaker

QueryNext ==
    \E product_id \in {"", "P1", "P2"} : \E warehouse \in {"", "W1", "W2"} :
        \E p \in SeqProcs : StockQuery(p, product_id, warehouse)

SpecQuery == QueryInit /\ [][QueryNext]_vars

\* One adapter call after another, followed request by request.
AdapterNext ==
    \/ \E op \in AdapterOps : AdapterCall(op)
    \/ MakeRequest
    \/ TokenLapses

SpecAdapter == Init /\ [][AdapterNext]_vars

\* Every HTTP request ends: requests.request runs with timeout = self.timeout.
SpecAdapterLive == SpecAdapter /\ WF_vars(MakeRequest)

\* A call that has started goes on: every store request returns or raises
\* within the timeout and the retries of _make_request.
SpecLive == Spec /\ WF_vars((\E p \in SeqProcs : Step(p)) /\ UNCHANGED otherVars)

\* The same caller with inbound unit costs that differ by less than the
\* tolerance of update_inbound.
EpsilonNext == NextOn(EpsilonInBatches, EpsilonOutBatches)

SpecEpsilon == Init /\ [][EpsilonNext]_vars

----------------------------------------------------------------------------
(* Properties *)

Caller == call["a"]
Done == Caller.pc = "done"
OutboundDone == Done /\ Caller.op = "out"
InboundDone == Done /\ Caller.op = "in"
LayerIds == 1..Len(layers)

\* Stock of a product in a warehouse in the layer table ls.
StockOf(ls, pid, wh) ==
    SumCur(SelectSeq(ls, LAMBDA f : f.pid = pid /\ f.wh = wh))

\* C1. Non-negativity: after any sequence of add_inbound and add_outbound
\* calls run one at a time, failed ones included, every stock layer has a
\* current quantity of at least 0.
C1_NonNegativity == \A r \in LayerIds : layers[r].cur >= 0

\* An outbound call that failed after it had written has returned, and a layer
\* is drawn down to zero.
C1_Witness ==
    /\ OutboundDone /\ ~Caller.result /\ Caller.written # <<>>
    /\ \E r \in LayerIds : layers[r].cumOut > 0 /\ layers[r].cur = 0

\* C2. Conservation: after every add_inbound or add_outbound call run one at a
\* time, successful or failed, every stock layer has current quantity =
\* cumulative inbound quantity - cumulative outbound quantity.
C2_Conservation ==
    \A r \in LayerIds : layers[r].cur = layers[r].cumIn - layers[r].cumOut

\* A layer that merged two inbound events and was drawn from, after a call.
C2_Witness ==
    /\ Done
    /\ \E r \in LayerIds :
        /\ layers[r].cumOut > 0
        /\ layers[r].cur > 0
        /\ Len(SelectSeq(applied, LAMBDA e : e.pid = layers[r].pid /\ e.wh = layers[r].wh
                                             /\ e.price = layers[r].cost)) >= 2

\* Some line of the batch asks for more than the stock of its product and
\* warehouse held when the call started.
SomeLineExceedsStock(c) ==
    \E n \in 1..Len(c.lines) :
        c.lines[n].qty > StockOf(c.pre, c.lines[n].pid, c.lines[n].wh)

NothingWritten(c) ==
    /\ c.written = <<>>
    /\ outbound = c.preOut
    /\ layers = c.pre

\* C3. All-or-nothing validation: an add_outbound whose batch has a line that
\* asks for more than the summed current quantity of its product and warehouse
\* reports failure, writes no outbound ledger row and changes no layer.
C3_AllOrNothingValidation ==
    (OutboundDone /\ SomeLineExceedsStock(Caller))
        => (~Caller.result /\ NothingWritten(Caller))

\* A batch of two lines has returned: line 1 was covered by the stock, line 2
\* was not, and no store request raised.
C3_Witness ==
    /\ OutboundDone /\ fails = 0
    /\ Len(Caller.lines) = 2
    /\ Caller.lines[1].qty <= StockOf(Caller.pre, Caller.lines[1].pid, Caller.lines[1].wh)
    /\ Caller.lines[2].qty > StockOf(Caller.pre, Caller.lines[2].pid, Caller.lines[2].wh)
    /\ Caller.msg = "insufficient"

\* C4. Every outbound batch that cannot be fully allocated aborts before any
\* write: whenever add_outbound reports insufficient stock it has written no
\* outbound ledger row and changed no stock layer.
C4_AbortsBeforeAnyWrite ==
    (OutboundDone /\ Caller.msg = "insufficient") => NothingWritten(Caller)

----------------------------------------------------------------------------
(* The allocation the design describes, computed on the layer table itself *)

WithStock(ls, pid, wh) ==
    {r \in 1..Len(ls) : ls[r].pid = pid /\ ls[r].wh = wh /\ ls[r].cur > 0}

\* The layer of highest unit cost among S, the first of the table on a tie.
Dearest(ls, S) ==
    CHOOSE r \in S : \A q \in S :
        ls[r].cost > ls[q].cost \/ (ls[r].cost = ls[q].cost /\ r <= q)

Drawn(f, qty, price) ==
    [f EXCEPT !.cumOut = @ + qty, !.cur = @ - qty, !.outVal = @ + qty * price]

\* Walk the layers with stock in descending unit cost, taking
\* min(remaining, current quantity) from each: the (cost, quantity) pairs taken
\* and the layer table left.
RECURSIVE Allocation(_, _, _)
Allocation(ls, line, remaining) ==
    LET S == WithStock(ls, line.pid, line.wh)
    IN  IF remaining <= 0 \/ S = {} THEN [rows |-> <<>>, layers |-> ls]
        ELSE LET r == Dearest(ls, S)
                 qty == Min(remaining, ls[r].cur)
                 rest == Allocation([ls EXCEPT ![r] = Drawn(@, qty, line.price)],
                                    line, remaining - qty)
             IN  [rows |-> <<[cost |-> ls[r].cost, qty |-> qty]>> \o rest.rows,
                  layers |-> rest.layers]

RECURSIVE BatchAllocation(_, _)
BatchAllocation(ls, lines) ==
    IF lines = <<>> THEN [rows |-> <<>>, layers |-> ls]
    ELSE LET first == Allocation(ls, Head(lines), Head(lines).qty)
             rest == BatchAllocation(first.layers, Tail(lines))
         IN  [rows |-> first.rows \o rest.rows, layers |-> rest.layers]

CostAndQty(rows) == [n \in 1..Len(rows) |-> [cost |-> rows[n].cost, qty |-> rows[n].qty]]

IsPrefix(s, t) == Len(s) <= Len(t) /\ SubSeq(t, 1, Len(s)) = s

\* The layer table ls holds exactly the two layers of the example: current
\* quantity q10 at unit cost 10 and q12 at unit cost 12.
TwoLayers(ls, q10, q12) ==
    /\ Len(ls) = 2
    /\ \E a, b \in 1..2 :
        /\ ls[a].cost = 10000 /\ ls[a].cur = q10
        /\ ls[b].cost = 12000 /\ ls[b].cur = q12

RequestOf(c, qty) == Len(c.lines) = 1 /\ c.lines[1].qty = qty

\* C5. Cost-descending allocation: add_outbound takes min(remaining, current
\* quantity) from the layers with stock in descending unit cost until
\* remaining is 0: the ledger rows of a successful call, and its layer updates,
\* are that walk, and the rows written so far are always a prefix of it.  With
\* layers 100 at 10 and 50 at 12, a request for 120 takes 50 at 12 then 70 at
\* 10, and a request for 80 leaves the 10-layer at 70 and the 12-layer at 0.
C5_CostDescendingAllocation ==
    Caller.op = "out" =>
        LET walk == BatchAllocation(Caller.pre, Caller.lines)
        IN  /\ IsPrefix(CostAndQty(Caller.written), walk.rows)
            /\ (Done /\ Caller.result) =>
                /\ CostAndQty(Caller.written) = walk.rows
                /\ layers = walk.layers
                /\ (TwoLayers(Caller.pre, 100, 50) /\ RequestOf(Caller, 120)) =>
                       CostAndQty(Caller.written) =
                           <<[cost |-> 12000, qty |-> 50], [cost |-> 10000, qty |-> 70]>>
                /\ (TwoLayers(Caller.pre, 100, 50) /\ RequestOf(Caller, 80)) =>
                       TwoLayers(layers, 70, 0)

\* The request for 120 against 100 at 10 and 50 at 12 has succeeded.
C5_Witness ==
    /\ OutboundDone /\ Caller.result
    /\ TwoLayers(Caller.pre, 100, 50) /\ RequestOf(Caller, 120)
    /\ Len(Caller.written) = 2

\* C6 as stated. With layers 100 at 10 and 50 at 12, a request for 80 is
\* allocated entirely, all 80 units, from the cost-12 layer.
C6_AllFromDearestLayer ==
    (OutboundDone /\ Caller.result /\ TwoLayers(Caller.pre, 100, 50) /\ RequestOf(Caller, 80))
        => CostAndQty(Caller.written) = <<[cost |-> 12000, qty |-> 80]>>

\* C6, amended. With layers 100 at 10 and 50 at 12, a request for 80 is
\* allocated 50 units from the cost-12 layer, all it holds, and then 30 units
\* from the cost-10 layer.
C6_DearestLayerFirst ==
    (OutboundDone /\ Caller.result /\ TwoLayers(Caller.pre, 100, 50) /\ RequestOf(Caller, 80))
        => CostAndQty(Caller.written) =
               <<[cost |-> 12000, qty |-> 50], [cost |-> 10000, qty |-> 30]>>

\* The request for 80 against 100 at 10 and 50 at 12 has succeeded.
C6_Witness ==
    /\ OutboundDone /\ Caller.result
    /\ TwoLayers(Caller.pre, 100, 50) /\ RequestOf(Caller, 80)
    /\ TwoLayers(layers, 70, 0)

----------------------------------------------------------------------------
(* Rollback of the commit phase *)

InOutboundTable(rid) == \E n \in 1..Len(outbound) : outbound[n].rid = rid

\* C7. Rollback cleanup: if the second of three outbound ledger writes of one
\* add_outbound commit phase fails, the record of the first ledger entry is
\* deleted from the outbound table and add_outbound reports failure.
C7_RollbackCleanup ==
    (/\ OutboundDone
     /\ ~SomeLineExceedsStock(Caller)
     /\ Caller.failedWrite = 2
     /\ Len(BatchAllocation(Caller.pre, Caller.lines).rows) = 3
     /\ SumQty(BatchAllocation(Caller.pre, Caller.lines).rows) = SumQty(Caller.lines))
        => (~Caller.result /\ ~InOutboundTable(Caller.written[1].rid))

\* C8. If update_outbound fails during the commit phase, every outbound ledger
\* row this call created, the row written just before the failed update
\* included, is deleted and the call reports failure.
C8_UpdateFailureDeletesRows ==
    (OutboundDone /\ Caller.msg = "update_failed")
        => (/\ ~Caller.result
            /\ \A n \in 1..Len(Caller.written) : ~InOutboundTable(Caller.written[n].rid))

\* The layer table ls after the layer updates of the ledger rows rows: each
\* row draws its quantity from the layer of its product, warehouse and cost.
RECURSIVE AfterUpdates(_, _)
AfterUpdates(ls, rows) ==
    IF rows = <<>> THEN ls
    ELSE LET row == Head(rows)
         IN  AfterUpdates(
                 [r \in 1..Len(ls) |->
                     IF ls[r].pid = row.pid /\ ls[r].wh = row.wh /\ ls[r].cost = row.cost
                     THEN Drawn(ls[r], row.qty, row.price)
                     ELSE ls[r]],
                 Tail(rows))

\* C9. Rollback of a failed outbound commit does not reverse layer updates:
\* every layer decremented by a successful update before the failing write
\* keeps its decremented cumulative outbound quantity, current quantity and
\* total outbound value after add_outbound has returned failure.
C9_RollbackKeepsLayerUpdates ==
    (OutboundDone /\ ~Caller.result)
        => layers = AfterUpdates(Caller.pre, Caller.successful_records)

\* A call has failed after a successful layer update.
C9_Witness ==
    /\ OutboundDone /\ ~Caller.result
    /\ Caller.successful_records # <<>>
    /\ \E r \in LayerIds : layers[r].cumOut > Caller.pre[r].cumOut

----------------------------------------------------------------------------
(* Inbound merge *)

AppliedTo(pid, wh, cost) ==
    SelectSeq(applied, LAMBDA e : e.pid = pid /\ e.wh = wh /\ e.price = cost)

LayersOf(pid, wh, cost) ==
    {r \in LayerIds : layers[r].pid = pid /\ layers[r].wh = wh /\ layers[r].cost = cost}

\* C10. Merge on equal cost: the inbound events of one (product, warehouse,
\* unit cost) end in exactly one stock layer record for that key, whose
\* cumulative inbound quantity is the sum of their quantities, and whose
\* current quantity is that sum when no outbound happened, also when outbound
\* operations in between brought the layer to zero.
C10_MergeOnEqualCost ==
    \A n \in 1..Len(applied) :
        LET e == applied[n]
            S == LayersOf(e.pid, e.wh, e.price)
        IN  /\ Cardinality(S) = 1
            /\ \A r \in S :
                /\ layers[r].cumIn = SumQty(AppliedTo(e.pid, e.wh, e.price))
                /\ layers[r].cumOut = 0 => layers[r].cur = layers[r].cumIn

\* An inbound event has merged into a layer that outbound had brought to zero.
C10_Witness ==
    /\ InboundDone /\ Caller.result /\ Caller.mergedAtZero
    /\ \E r \in LayerIds :
        /\ layers[r].cumOut > 0 /\ layers[r].cur > 0
        /\ Len(AppliedTo(layers[r].pid, layers[r].wh, layers[r].cost)) >= 2

----------------------------------------------------------------------------
(* Tolerance of the unit-cost comparison *)

\* The layers of a product and warehouse whose unit cost is less than 0.01
\* away from cost.
LayersNear(pid, wh, cost) ==
    {r \in LayerIds :
        layers[r].pid = pid /\ layers[r].wh = wh /\ Abs(layers[r].cost - cost) < 10}

HasApplied(pid, wh, cost) == AppliedTo(pid, wh, cost) # <<>>

\* C11. Epsilon cost matching: update_inbound resolves an inbound event to an
\* existing layer iff product and warehouse are equal and the unit costs differ
\* by less than 0.01: events at 12.00 and 12.001 end in the same layer, events
\* at 12.00 and 12.5 in different layers.
C11_EpsilonCostMatching ==
    /\ (Caller.op = "in" /\ Caller.pc = "in_save") =>
           LET l == Caller.lines[Caller.i]
           IN  /\ (Caller.record_id # 0) <=> (LayersNear(l.pid, l.wh, l.price) # {})
               /\ Caller.record_id # 0 =>
                      Caller.record_id \in LayersNear(l.pid, l.wh, l.price)
    /\ Cardinality(LayersNear("P1", "W1", 12000)) <= 1
    /\ (HasApplied("P1", "W1", 12000) /\ HasApplied("P1", "W1", 12001)) =>
           \E r \in LayersNear("P1", "W1", 12000) :
               layers[r].cumIn = SumQty(AppliedTo("P1", "W1", 12000))
                                     + SumQty(AppliedTo("P1", "W1", 12001))
    /\ (HasApplied("P1", "W1", 12000) /\ HasApplied("P1", "W1", 12500)) =>
           /\ LayersNear("P1", "W1", 12000) # {}
           /\ LayersNear("P1", "W1", 12500) # {}
           /\ LayersNear("P1", "W1", 12000) \cap LayersNear("P1", "W1", 12500) = {}

\* Events at 12.00, 12.001 and 12.5 of one product and warehouse have been
\* saved: two layers hold them.
C11_Witness ==
    /\ InboundDone /\ Caller.result
    /\ HasApplied("P1", "W1", 12000) /\ HasApplied("P1", "W1", 12001)
    /\ HasApplied("P1", "W1", 12500)
    /\ Cardinality({r \in LayerIds : layers[r].pid = "P1"}) = 2

----------------------------------------------------------------------------
(* Life of a stock layer *)

\* C12. Stock layers are never deleted: no step of add_inbound or add_outbound,
\* the outbound rollback included, removes a stock layer record; every record
\* keeps its place, product, warehouse and unit cost, also at current
\* quantity 0.
C12_LayersNeverDeleted ==
    [][/\ Len(layers') >= Len(layers)
       /\ \A r \in LayerIds :
            /\ layers'[r].pid = layers[r].pid
            /\ layers'[r].wh = layers[r].wh
            /\ layers'[r].cost = layers[r].cost]_vars

\* An outbound call has run its rollback after a successful record, and a
\* layer without stock is still in the table.
C12_Witness ==
    /\ OutboundDone /\ ~Caller.result
    /\ Caller.successful_records # <<>>
    /\ Len(layers) = Len(Caller.pre)
    /\ \E r \in LayerIds : layers[r].cur = 0 /\ Caller.pre[r].cur > 0

----------------------------------------------------------------------------
(* Inbound batches *)

\* The ledger row add_inbound writes for line l of call c.
InLedgerRow(c, l) ==
    [no |-> c.no, pid |-> l.pid, wh |-> l.wh, qty |-> l.qty, price |-> l.price,
     total |-> l.qty * l.price]

\* The ledger rows of the lines with a quantity and a price.
RECURSIVE LedgerOf(_, _)
LedgerOf(c, lines) ==
    IF lines = <<>> THEN <<>>
    ELSE (IF Head(lines).qty > 0 /\ Head(lines).price > 0
          THEN <<InLedgerRow(c, Head(lines))>> ELSE <<>>) \o LedgerOf(c, Tail(lines))

\* The layer table ls after the inbound event l: merged into the first layer of
\* its product and warehouse less than 0.01 from its unit cost, or a new layer.
InboundEvent(ls, l) ==
    LET S == {r \in 1..Len(ls) :
                 ls[r].pid = l.pid /\ ls[r].wh = l.wh /\ Abs(ls[r].cost - l.price) < 10}
    IN  IF ~(l.qty > 0 /\ l.price > 0) THEN ls
        ELSE IF S = {}
        THEN Append(ls, [pid |-> l.pid, wh |-> l.wh, cost |-> l.price, cumIn |-> l.qty,
                         cumOut |-> 0, cur |-> l.qty, inVal |-> l.qty * l.price,
                         outVal |-> 0])
        ELSE LET r == CHOOSE r \in S : \A q \in S : r <= q
             IN  [ls EXCEPT ![r] = [@ EXCEPT !.cumIn = @ + l.qty, !.cur = @ + l.qty,
                                             !.inVal = @ + l.qty * l.price]]

RECURSIVE InboundEvents(_, _)
InboundEvents(ls, lines) ==
    IF lines = <<>> THEN ls
    ELSE InboundEvents(InboundEvent(ls, Head(lines)), Tail(lines))

FirstLines(c, n) == SubSeq(c.lines, 1, n)

\* C13. In add_inbound the inbound ledger row of a line is written before the
\* stock layer is read or changed, and if that ledger write fails the event
\* fails: no stock layer is created or changed for the line and the call
\* reports failure.
C13_LedgerRowBeforeLayer ==
    /\ (Caller.op = "in" /\ Caller.pc \in {"in_read", "in_save"}) =>
           /\ inbound = Caller.preIn \o LedgerOf(Caller, FirstLines(Caller, Caller.i))
           /\ layers = InboundEvents(Caller.pre, FirstLines(Caller, Caller.i - 1))
    /\ (InboundDone /\ Caller.msg = "error") =>
           /\ ~Caller.result
           /\ layers = InboundEvents(Caller.pre, FirstLines(Caller, Caller.failedLine - 1))
    /\ (InboundDone /\ Caller.result) =>
           inbound = Caller.preIn \o LedgerOf(Caller, Caller.lines)

\* The ledger write of the second line of a batch has raised.
C13_Witness ==
    /\ InboundDone /\ Caller.msg = "error" /\ Caller.failedLine = 2
    /\ layers # Caller.pre

\* C14. add_inbound reports True if and only if every line of data_list
\* succeeded: each line wrote its inbound ledger row and its stock layer was
\* created or updated.
C14_SuccessIffEveryLine ==
    InboundDone =>
        (Caller.result <=>
            /\ \A n \in 1..Len(Caller.lines) : ValidInLine(Caller.lines[n])
            /\ inbound = Caller.preIn \o LedgerOf(Caller, Caller.lines)
            /\ layers = InboundEvents(Caller.pre, Caller.lines))

\* A batch of two lines has succeeded.
C14_Witness ==
    /\ InboundDone /\ Caller.result
    /\ Len(Caller.lines) = 2
    /\ Len(inbound) = Len(Caller.preIn) + 2

\* C15 as stated. A ledger-write or layer-save failure on one line of an
\* inbound batch aborts that line only: the lines after it are still processed.
C15_RemainingLinesProcessed ==
    (InboundDone /\ Caller.failedLine # 0) =>
        \A n \in (Caller.failedLine + 1)..Len(Caller.lines) :
            ValidInLine(Caller.lines[n]) =>
                \E m \in (Len(Caller.preIn) + 1)..Len(inbound) :
                    inbound[m] = InLedgerRow(Caller, Caller.lines[n])

\* C15, amended. A ledger-write or layer-save failure on one line of an inbound
\* batch ends the call with failure at that line: the lines after it write no
\* ledger row and change no layer.
C15_FailureEndsBatch ==
    (InboundDone /\ Caller.failedLine # 0) =>
        /\ ~Caller.result
        /\ Caller.i = Caller.failedLine
        /\ Len(inbound) <= Len(Caller.preIn) + Len(LedgerOf(Caller, FirstLines(Caller, Caller.i)))
        /\ layers = InboundEvents(Caller.pre, FirstLines(Caller, Caller.failedLine - 1))

\* The first line of a batch of two has failed.
C15_Witness ==
    /\ InboundDone /\ Caller.failedLine = 1
    /\ Len(Caller.lines) = 2 /\ ValidInLine(Caller.lines[2])

\* C16. Inbound has no compensation: when add_inbound fails on some line, the
\* ledger rows and layer changes of the earlier lines, and the failing line's
\* own ledger row when only its layer save failed, remain in the store.
C16_NoInboundCompensation ==
    (InboundDone /\ Caller.failedLine # 0) =>
        LET earlier == FirstLines(Caller, Caller.failedLine - 1)
            kept == InboundEvents(Caller.pre, earlier)
        IN  /\ IsPrefix(Caller.preIn \o LedgerOf(Caller, earlier), inbound)
            /\ Caller.msg = "update_failed" =>
                   IsPrefix(Caller.preIn
                                \o LedgerOf(Caller, FirstLines(Caller, Caller.failedLine)),
                            inbound)
            /\ Len(layers) >= Len(kept)
            /\ \A r \in 1..Len(kept) :
                   layers[r].cumIn >= kept[r].cumIn /\ layers[r].inVal >= kept[r].inVal

\* The layer save of the second line of a batch has failed after the first
\* line was saved.
C16_Witness ==
    /\ InboundDone /\ Caller.failedLine = 2 /\ Caller.msg = "update_failed"
    /\ Caller.success_count = 1
    /\ Len(inbound) = Len(Caller.preIn) + 2

----------------------------------------------------------------------------
(* Ledger row and layer update of the commit phase *)

\* C17. When calls run one at a time, every outbound ledger row is written
\* before its layer update, the layer the paired update_outbound decrements is
\* the layer whose unit cost the row records as cost basis, it is decremented
\* by exactly the row's quantity, and one ledger row is written per consumed
\* layer.
C17_RowThenItsLayer ==
    [][/\ (Caller.op = "out" /\ outbound' # outbound) => layers' = layers
       /\ (Caller.op = "out" /\ layers' # layers) =>
            LET row == Caller.new_record
            IN  /\ InOutboundTable(row.rid)
                /\ Len(layers') = Len(layers)
                /\ \E r \in LayerIds :
                    /\ layers[r].pid = row.pid /\ layers[r].wh = row.wh
                    /\ layers[r].cost = row.cost
                    /\ layers'[r] = Drawn(layers[r], row.qty, row.price)
                    /\ \A q \in LayerIds \ {r} : layers'[q] = layers[q]
                /\ call'["a"].successful_records = Append(Caller.successful_records, row)
                /\ \A n \in 1..Len(Caller.successful_records) :
                       Caller.successful_records[n].rid # row.rid]_vars

\* A line has been served from two layers, one ledger row for each.
C17_Witness ==
    /\ OutboundDone /\ Caller.result
    /\ Len(Caller.lines) = 1
    /\ Len(Caller.successful_records) = 2
    /\ Caller.successful_records[1].cost > Caller.successful_records[2].cost
    /\ \A r \in LayerIds : layers[r].pid = Caller.lines[1].pid => layers[r].cumOut > 0

----------------------------------------------------------------------------
(* Outcomes of add_outbound *)

Aborted(c) == ~c.result /\ NothingWritten(c)
Committed(c) == c.result
RolledBack(c) == ~c.result /\ c.written # <<>>

\* Quantity of the ledger rows the call wrote for line n.
RECURSIVE WrittenForLine(_, _, _)
WrittenForLine(c, n, m) ==
    IF m = 0 THEN 0
    ELSE (IF c.writtenFor[m] = n THEN c.written[m].qty ELSE 0) + WrittenForLine(c, n, m - 1)

\* Quantity the lines of the batch ask of a product and warehouse.
RECURSIVE RequestedOf(_, _, _)
RequestedOf(lines, pid, wh) ==
    IF lines = <<>> THEN 0
    ELSE (IF Head(lines).pid = pid /\ Head(lines).wh = wh THEN Head(lines).qty ELSE 0)
             + RequestedOf(Tail(lines), pid, wh)

\* C18. Every add_outbound call ends, in exactly one of three outcomes: Aborted
\* (failure, nothing written), Committed (success) or RolledBack (failure after
\* writes); and it returns True only if, for every line of the batch, the
\* ledger rows written for the line have quantities summing to the requested
\* quantity and the layers were decremented by the same total.
C18_OutboundOutcomes ==
    /\ [](OutboundDone =>
            /\ Aborted(Caller) \/ Committed(Caller) \/ RolledBack(Caller)
            /\ ~(Aborted(Caller) /\ RolledBack(Caller))
            /\ Committed(Caller) =>
                 \A n \in 1..Len(Caller.lines) :
                    LET l == Caller.lines[n]
                        total == RequestedOf(Caller.lines, l.pid, l.wh)
                    IN  /\ WrittenForLine(Caller, n, Len(Caller.written)) = l.qty
                        /\ StockOf(layers, l.pid, l.wh)
                               = StockOf(Caller.pre, l.pid, l.wh) - total)
    /\ (Caller.op = "out" /\ Caller.pc # "done") ~> OutboundDone

\* A batch of two lines of one product has been committed.
C18_Witness ==
    /\ OutboundDone /\ Committed(Caller)
    /\ Len(Caller.lines) = 2
    /\ Caller.lines[1].pid = Caller.lines[2].pid
    /\ Len(Caller.written) >= 2

----------------------------------------------------------------------------
(* Concurrent outbound calls *)

\* Both callers have returned True from an add_outbound for the product and
\* warehouse of line l; the first started when no call was running and the
\* second is the next call after it; no inbound event was saved since the first
\* started, and together they asked for more than the stock held then.
OverAllocated(first, second) ==
    LET c == call[first]
        d == call[second]
        l == c.lines[1]
    IN  /\ c.op = "out" /\ c.pc = "done" /\ c.result
        /\ d.op = "out" /\ d.pc = "done" /\ d.result
        /\ ~c.startedDuring /\ d.startNo = c.startNo + 1
        /\ Len(applied) = c.preApplied
        /\ d.lines[1].pid = l.pid /\ d.lines[1].wh = l.wh
        /\ RequestedOf(c.lines, l.pid, l.wh) + RequestedOf(d.lines, l.pid, l.wh)
               > StockOf(c.pre, l.pid, l.wh)

\* C19. Two concurrent add_outbound calls against the same product and
\* warehouse can race between the stock read and the commit-phase writes: both
\* report success although the sum of their quantities exceeds the stock that
\* was available before either started.  This happens only to calls that
\* overlap: the second started while the first was running, and the layers
\* then record less outbound quantity than the two calls wrote to the ledger.
C19_OverAllocationNeedsOverlap ==
    \A first, second \in Procs :
        OverAllocated(first, second) =>
            LET c == call[first]
                d == call[second]
                l == c.lines[1]
            IN  /\ d.startedDuring
                /\ StockOf(layers, l.pid, l.wh) >= 0
                /\ StockOf(c.pre, l.pid, l.wh) - StockOf(layers, l.pid, l.wh)
                       < SumQty(c.written) + SumQty(d.written)

\* The interleaving of the claim: both calls have reported success and their
\* ledger rows are in the outbound table.
C19_Witness ==
    \E first, second \in Procs :
        /\ OverAllocated(first, second)
        /\ SumQty(call[first].written) = SumQty(call[first].lines)
        /\ SumQty(call[second].written) = SumQty(call[second].lines)
        /\ \A n \in 1..Len(call[second].written) :
               InOutboundTable(call[second].written[n].rid)

----------------------------------------------------------------------------
(* Lines of one outbound batch *)

SameKey(l, m) == l.pid = m.pid /\ l.wh = m.wh

\* No store request has raised since the call started.
NoFailureSince(c) == fails = c.preFails

\* C20. The lines of one outbound batch are processed strictly one after
\* another, each line's allocation computed from the layer state the earlier
\* lines left: for two lines of the same product and warehouse (each asking
\* for a quantity above 0) whose combined quantity does not exceed the stock,
\* the batch succeeds and the layers decrease by exactly the combined quantity.
C20_LinesInSequence ==
    /\ (Caller.op = "out" /\ Caller.pc \in {"out_write", "out_upd_read", "out_upd_write"}) =>
           \A m \in 1..Len(Caller.writtenFor) : Caller.writtenFor[m] <= Caller.i
    /\ (/\ Caller.op = "out" /\ Caller.pc = "out_write"
        /\ \A m \in 1..Len(Caller.writtenFor) : Caller.writtenFor[m] < Caller.i) =>
           LET l == Caller.lines[Caller.i]
           IN  /\ SumCur(Caller.stock_records) = StockOf(layers, l.pid, l.wh)
               /\ StockOf(layers, l.pid, l.wh)
                      = StockOf(Caller.pre, l.pid, l.wh)
                            - RequestedOf(FirstLines(Caller, Caller.i - 1), l.pid, l.wh)
    /\ (/\ OutboundDone /\ NoFailureSince(Caller)
        /\ Len(Caller.lines) = 2 /\ SameKey(Caller.lines[1], Caller.lines[2])
        /\ Caller.lines[1].qty > 0 /\ Caller.lines[2].qty > 0
        /\ Caller.lines[1].qty + Caller.lines[2].qty
               <= StockOf(Caller.pre, Caller.lines[1].pid, Caller.lines[1].wh)) =>
           /\ Caller.result
           /\ StockOf(layers, Caller.lines[1].pid, Caller.lines[1].wh)
                  = StockOf(Caller.pre, Caller.lines[1].pid, Caller.lines[1].wh)
                        - (Caller.lines[1].qty + Caller.lines[2].qty)

\* Two lines of one product have drawn the whole stock of two layers.
C20_Witness ==
    /\ OutboundDone /\ Caller.result /\ NoFailureSince(Caller)
    /\ Len(Caller.lines) = 2 /\ SameKey(Caller.lines[1], Caller.lines[2])
    /\ Caller.lines[1].qty + Caller.lines[2].qty
           = StockOf(Caller.pre, Caller.lines[1].pid, Caller.lines[1].wh)
    /\ Cardinality({r \in LayerIds : layers[r].cur < Caller.pre[r].cur}) = 2

----------------------------------------------------------------------------
(* Report of insufficient stock *)

\* The lines of the batch that ask for more than the stock their product and
\* warehouse held when the call started, each with its required and its
\* available quantity.
RECURSIVE OffendingLines(_, _)
OffendingLines(c, n) ==
    IF n > Len(c.lines) THEN <<>>
    ELSE LET l == c.lines[n]
             available == StockOf(c.pre, l.pid, l.wh)
         IN  (IF l.qty > available
              THEN <<[line |-> n, required |-> l.qty, current |-> available]>>
              ELSE <<>>) \o OffendingLines(c, n + 1)

RejectedForStock(c) ==
    c.op = "out" /\ c.pc = "done" /\ c.msg \in {"insufficient", "insufficient_reported"}

\* C21. When an outbound batch is rejected for insufficient stock, the failure
\* is reported before any write and the report identifies every offending line
\* with its required and its available quantity.
C21_ReportsEveryOffendingLine ==
    (RejectedForStock(Caller) /\ NoFailureSince(Caller)) =>
        /\ NothingWritten(Caller)
        /\ Caller.insufficient_stock = OffendingLines(Caller, 1)

----------------------------------------------------------------------------
(* Retries of the adapter *)

\* The responses to the requests the adapter call sent in a phase: for its
\* token, or for the call itself.
ResponsesIn(phase) ==
    LET sent == SelectSeq(http.log, LAMBDA e : e.phase = phase)
    IN  [m \in 1..Len(sent) |-> sent[m].resp]

AllAre(resps, resp) == \A m \in 1..Len(resps) : resps[m] = resp

\* C22 as stated. An adapter call makes at most max_retries + 1 = 4 HTTP
\* attempts.
C22_FourAttemptsPerAdapterCall == Len(http.log) <= max_retries + 1

\* C22, amended. A request that keeps timing out is retried max_retries = 3
\* times, 4 HTTP attempts for one _make_request, and then raises; an adapter
\* call that first has to ask for the access token makes up to 4 further
\* attempts for the token, at most 8 in all; every adapter call terminates.
C22_BoundedRetries ==
    /\ [](\A phase \in {"token", "request"} :
            LET resps == ResponsesIn(phase)
            IN  /\ Len(resps) <= max_retries + 1
                /\ (AllAre(resps, "timeout") /\ Len(resps) = max_retries + 1) =>
                       http.pc = "raised"
                /\ (/\ http.pc = "raised"
                    /\ http.log[Len(http.log)].phase = phase
                    /\ http.log[Len(http.log)].resp = "timeout") =>
                       /\ Len(resps) = max_retries + 1
                       /\ \A m \in 1..Len(resps) : resps[m] \in {"timeout", "token_expired"})
    /\ [](Len(http.log) <= 2 * (max_retries + 1))
    /\ (HttpRunning ~> ~HttpRunning)

\* The token was granted and the request of the call then timed out four
\* times: five HTTP attempts, and the call has raised.
C22_Witness ==
    /\ http.pc = "raised"
    /\ ResponsesIn("token") = <<"ok">>
    /\ ResponsesIn("request") = <<"timeout", "timeout", "timeout", "timeout">>

\* The response m of the adapter call ended the call with an exception.
RaisedAt(m) == m = Len(http.log) /\ http.pc = "raised"

\* C23 as stated. A request answered with a response code other than 0 is not
\* retried: it is the last request of the adapter call and the failure is
\* raised.
C23_NonZeroCodeNeverRetried ==
    \A m \in 1..Len(http.log) :
        http.log[m].resp \in {"rejected", "token_expired"} => RaisedAt(m)

\* C23, amended. A request the store rejects with a response code other than 0
\* and other than 99991663 is not retried: no request of the adapter call
\* follows it and the failure is raised.  Code 99991663 (token expired) is
\* retried like a timeout, up to max_retries times.
C23_RejectedNeverRetried ==
    \A m \in 1..Len(http.log) :
        /\ http.log[m].resp = "rejected" => RaisedAt(m)
        /\ (http.log[m].resp = "token_expired" /\ RaisedAt(m)) =>
               Len(ResponsesIn(http.log[m].phase)) = max_retries + 1

\* The only request of an adapter call was rejected.
C23_Witness ==
    /\ http.pc = "raised"
    /\ ResponsesIn("request") = <<"rejected">>

----------------------------------------------------------------------------
(* Stock query *)

QueryDone == Caller.op = "query" /\ Caller.pc = "done" /\ Caller.result

\* C24. get_stock_summary(product_id, warehouse) returns exactly the stock
\* layer rows whose product equals product_id (when given) and whose warehouse
\* equals warehouse (when given); with both filters empty it returns every
\* stock layer row in the table; it performs no write.
C24_ReturnsExactlyMatchingRows ==
    QueryDone =>
        /\ Caller.stock_records =
               SelectSeq(layers,
                         LAMBDA f : /\ Caller.product_id # "" => f.pid = Caller.product_id
                                    /\ Caller.warehouse # "" => f.wh = Caller.warehouse)
        /\ (Caller.product_id = "" /\ Caller.warehouse = "") => Caller.stock_records = layers
        /\ layers = Caller.pre

----------------------------------------------------------------------------
(* Batch ids *)

\* The ledger the current call writes to, before the call and now.
LedgerBefore == IF Caller.op = "in" THEN Caller.preIn ELSE Caller.preOut
LedgerNow == IF Caller.op = "in" THEN inbound ELSE outbound

\* C25. The batch id identifies the logical order: two ledger rows carry the
\* same batch id if and only if they were written by the same add_inbound or
\* add_outbound call.  Calls run one at a time, so the rows of the current
\* call are those behind the ledger it found.
C25_BatchIdIdentifiesCall ==
    Caller.op \in {"in", "out"} =>
        \A i, j \in 1..Len(LedgerNow) :
            (LedgerNow[i].no = LedgerNow[j].no)
                <=> ((i > Len(LedgerBefore)) <=> (j > Len(LedgerBefore)))

----------------------------------------------------------------------------
(* Outbound input validation *)

HasInvalidQty(lines) == \E n \in 1..Len(lines) : lines[n].qty <= 0

\* C26. An outbound batch containing a line with requested quantity <= 0 is
\* rejected in the validation phase: add_outbound reports failure, and from
\* its start to its end no ledger row is written and no layer changes,
\* whatever the stock is.
C26_InvalidQuantityRejected ==
    (Caller.op = "out" /\ HasInvalidQty(Caller.lines)) =>
        /\ outbound = Caller.preOut
        /\ layers = Caller.pre
        /\ Caller.pc \in {"out_check", "done"}
        /\ Done => /\ ~Caller.result
                   /\ Caller.msg \in {"invalid_qty", "no_stock_record", "insufficient"}

\* A batch whose second line asks for -1 is rejected at that line although
\* the stock covers the first line.
C26_Witness ==
    /\ OutboundDone
    /\ Len(Caller.lines) = 2
    /\ Caller.lines[2].qty < 0
    /\ Caller.i = 2
    /\ Caller.msg = "invalid_qty"
    /\ StockOf(layers, "P1", "W1") >= 1
    /\ ~Caller.result

----------------------------------------------------------------------------
(* Effect of update_inbound on the layer table *)

\* The step is an update_inbound of the current line that succeeds.
InboundSaved ==
    /\ Caller.op = "in" /\ Caller.pc = "in_save"
    /\ applied' = Append(applied, Caller.lines[Caller.i])

\* C27. When an inbound event matches an existing layer, update_inbound
\* changes exactly that one layer record: cumulative_inbound_qty and
\* current_qty grow by quantity and total_inbound_value by quantity * the
\* event's unit cost; the layer's unit cost, cumulative_outbound_qty and
\* total_outbound_value, and every other layer record, are left unchanged.
C27_MatchedLayerGrows ==
    [][LET l == Caller.lines[Caller.i]
       IN  (InboundSaved /\ LayersNear(l.pid, l.wh, l.price) # {}) =>
               \E r \in LayersNear(l.pid, l.wh, l.price) :
                   layers' = [layers EXCEPT ![r] =
                                 [@ EXCEPT !.cumIn = @ + l.qty,
                                           !.cur = @ + l.qty,
                                           !.inVal = @ + l.qty * l.price]]]_vars

\* The layer at 12.00 has taken an event at 12.00 and an event at 12.001, and
\* an outbound of 1 before or after.
C27_Witness ==
    \E r \in LayerIds :
        /\ layers[r].cost = 12000
        /\ layers[r].cumIn = 2
        /\ layers[r].inVal = 12000 + 12001
        /\ layers[r].cumOut = 1

\* C28. When an inbound event matches no existing layer, update_inbound
\* creates exactly one new layer record with cumulative_inbound_qty =
\* current_qty = quantity, cumulative_outbound_qty = 0, total_inbound_value =
\* quantity * unit_cost and total_outbound_value = 0, and changes no existing
\* layer.
C28_UnmatchedEventCreatesLayer ==
    [][LET l == Caller.lines[Caller.i]
       IN  (InboundSaved /\ LayersNear(l.pid, l.wh, l.price) = {}) =>
               /\ Len(layers') = Len(layers) + 1
               /\ \A r \in LayerIds : layers'[r] = layers[r]
               /\ LET f == layers'[Len(layers')]
                  IN  /\ f.pid = l.pid /\ f.wh = l.wh /\ f.cost = l.price
                      /\ f.cumIn = l.qty /\ f.cur = l.qty /\ f.cumOut = 0
                      /\ f.inVal = l.qty * l.price /\ f.outVal = 0]_vars

\* A layer at 12.5 has been created behind a layer at 12.00 that holds what
\* it held.
C28_Witness ==
    /\ InboundDone /\ Caller.result
    /\ Len(layers) = 2
    /\ layers[1].cost = 12000 /\ layers[1].cumIn = 1 /\ layers[1].cur = 1
    /\ layers[2].cost = 12500 /\ layers[2].cumIn = 1 /\ layers[2].cur = 1
    /\ layers[2].cumOut = 0 /\ layers[2].inVal = 12500 /\ layers[2].outVal = 0
    /\ Caller.lines[Len(Caller.lines)].price = 12500

----------------------------------------------------------------------------
(* Effect of update_outbound on the layer table *)

\* C29. A layer update of the outbound commit phase adds allocated_qty to
\* cumulative_outbound_qty, subtracts it from current_qty and adds
\* allocated_qty * sale unit price to total_outbound_value, and leaves the
\* layer's unit cost, cumulative_inbound_qty and total_inbound_value (and the
\* other layers) unchanged; allocated_qty is the smaller of what is left to
\* take and what the layer holds.
C29_OutboundLayerUpdate ==
    [][(Caller.op = "out" /\ layers' # layers) =>
           /\ Caller.pc = "out_upd_write"
           /\ LET l == Caller.lines[Caller.i]
              IN  \E r \in LayerIds :
                      LET allocated_qty == Min(Caller.upd_remaining, layers[r].cur)
                      IN  /\ layers[r].pid = l.pid /\ layers[r].wh = l.wh
                          /\ allocated_qty > 0
                          /\ layers' = [layers EXCEPT ![r] =
                                 [@ EXCEPT !.cumOut = @ + allocated_qty,
                                           !.cur = @ - allocated_qty,
                                           !.outVal = @ + allocated_qty * l.price]]]_vars

\* Two units sold at 15 have been taken from one layer, whose inbound side is
\* as the inbound events left it.
C29_Witness ==
    /\ OutboundDone /\ Caller.result
    /\ \E r \in LayerIds :
        /\ layers[r].cumOut = 2
        /\ layers[r].outVal = 2 * 15000
        /\ layers[r].cur = layers[r].cumIn - 2
        /\ layers[r].inVal = layers[r].cumIn * layers[r].cost

----------------------------------------------------------------------------
(* Ledgers and layers *)

\* Quantity of a product and warehouse in a ledger.
LedgerQty(ledger, pid, wh) ==
    SumQty(SelectSeq(ledger, LAMBDA row : row.pid = pid /\ row.wh = wh))

\* C30. Ledger and layers reconcile: in any run where calls execute one at a
\* time and no store call fails, after every call and for every (product,
\* warehouse), the sum of current_qty over its layers equals the sum of the
\* inbound ledger quantities minus the sum of the outbound ledger quantities.
C30_LedgerAndLayersReconcile ==
    (AllReturned /\ fails = 0) =>
        \A pid \in {"P1", "P2"} : \A wh \in {"W1", "W2"} :
            StockOf(layers, pid, wh)
                = LedgerQty(inbound, pid, wh) - LedgerQty(outbound, pid, wh)

\* No store call has failed, and an outbound call that ran out of stock after
\* it had written has left its rows and its layer updates: all that came in
\* has gone out.
C30_Witness ==
    /\ OutboundDone /\ ~Caller.result /\ fails = 0
    /\ Caller.written # <<>>
    /\ LedgerQty(outbound, "P1", "W1") > 0
    /\ LedgerQty(inbound, "P1", "W1") = LedgerQty(outbound, "P1", "W1")
    /\ StockOf(layers, "P1", "W1") = 0

----------------------------------------------------------------------------
(* Concurrent calls *)

\* C31. Conservation survives interleaving: when an add_inbound and an
\* add_outbound that touch the same stock layer run concurrently, with their
\* store reads and writes interleaved in any order, the layer still satisfies
\* current_qty = cumulative_inbound_qty - cumulative_outbound_qty after both
\* have finished.
C31_ConservationUnderInterleaving ==
    (AllReturned /\ fails = 0) =>
        \A r \in LayerIds : layers[r].cur = layers[r].cumIn - layers[r].cumOut

\* C32. Non-negativity survives interleaving: under any interleaving of the
\* store reads and writes of concurrent add_inbound and add_outbound calls, no
\* stock layer is ever written with current_qty < 0.
C32_NonNegativityUnderInterleaving ==
    [][\A r \in 1..Len(layers') :
           (r > Len(layers) \/ layers'[r] # layers[r]) => layers'[r].cur >= 0]_vars

\* Two concurrent outbound calls have sold more than came in, and a layer
\* stands at zero.
C32_Witness ==
    /\ AllReturned
    /\ LedgerQty(outbound, "P1", "W1") > LedgerQty(inbound, "P1", "W1")
    /\ \E r \in LayerIds : layers[r].cur = 0 /\ layers[r].cumOut > 0

\* C33. Layer uniqueness: in every reachable state there is at most one stock
\* layer record per (product, warehouse, unit cost within the 0.01
\* tolerance), also when two add_inbound calls for a key that does not exist
\* yet run concurrently.
C33_LayerUniqueness ==
    \A r, q \in LayerIds :
        (/\ r # q
         /\ layers[r].pid = layers[q].pid
         /\ layers[r].wh = layers[q].wh) => Abs(layers[r].cost - layers[q].cost) >= CostEps

----------------------------------------------------------------------------
(* Exceptions *)

\* C34. add_inbound and add_outbound never propagate an exception to their
\* caller: every failure of a store call, of the stock check or of the
\* rollback itself ends with the call returning False.
C34_NoExceptionPropagates ==
    \A p \in Procs :
        LET c == call[p]
        IN  (c.op \in {"in", "out"} /\ c.pc = "done") =>
                /\ ~c.raised
                /\ fails > c.preFails => ~c.result
                /\ c.msg \in {"error", "update_failed", "no_stock_record", "insufficient",
                              "invalid_qty"} => ~c.result

\* The second write of an outbound call has raised, the rollback of the first
\* row has run (and failed in itself), and the call has returned False.
C34_Witness ==
    /\ OutboundDone /\ Caller.msg = "error"
    /\ Caller.successful_records # <<>>
    /\ outbound # Caller.preOut
    /\ ~Caller.result /\ ~Caller.raised

----------------------------------------------------------------------------
(* Requests that are sent again *)

\* C35. Each inbound line that add_inbound counts as successful has produced
\* exactly one inbound ledger row and one layer create-or-update, also when
\* the store request that creates the row times out on the client side and is
\* sent again by _make_request: the rows and the layer updates of a call are
\* as many as its successful lines, with one more row while a line is between
\* its row and its layer update or has failed there.
C35_OneRowPerSuccessfulLine ==
    Caller.op = "in" =>
        /\ Len(applied) - Caller.preApplied = Caller.success_count
        /\ Len(inbound) - Len(Caller.preIn)
               \in {Caller.success_count, Caller.success_count + 1}
        /\ (Done /\ Caller.result) =>
               Len(inbound) - Len(Caller.preIn) = Caller.success_count

----------------------------------------------------------------------------
(* MessageQueue *)

\* C36. MessageQueue never hands a message to two consumers: a message that
\* dequeue has returned and that has not yet been marked completed or failed
\* is not in the pending queue and is not returned by another dequeue, under
\* any sequence of enqueue, dequeue, mark_completed, mark_failed and
\* reset_stuck_messages.
C36_NoSecondConsumer ==
    \A id \in Msgs :
        /\ mq.held[id] <= 1
        /\ mq.held[id] = 1 => id \notin PendingIds(mq.pending)

\* C37. MessageQueue is bounded: after any sequence of enqueue, dequeue,
\* mark_failed and reset_stuck_messages the number of pending messages never
\* exceeds max_queue_size.
C37_QueueBounded == Len(mq.pending) <= max_queue_size

----------------------------------------------------------------------------
(* CircuitBreaker *)

BreakerCalls == 1..Len(cb.history)

\* Seconds between the last failure and call n.
SinceLastFailure(n) == cb.history[n].at * 30 - cb.history[n].last * 30

\* C38. While the breaker is OPEN and recovery_timeout has not elapsed since
\* the last failure, call never invokes the wrapped function and raises
\* NetworkError; the first call after the timeout runs the function in
\* HALF_OPEN, and its success puts the breaker in CLOSED with failure_count 0.
C38_OpenBreaker ==
    \A n \in BreakerCalls :
        LET e == cb.history[n]
        IN  e.found = "OPEN" =>
                IF SinceLastFailure(n) <= 60
                THEN ~e.ran /\ e.outcome = "NetworkError" /\ e.left = "OPEN"
                ELSE /\ e.ran /\ e.ranIn = "HALF_OPEN"
                     /\ e.outcome = "returned" => (e.left = "CLOSED" /\ e.count = 0)

\* A call was refused 60 seconds after the last failure, and the call 90
\* seconds after it ran and closed the breaker.
C38_Witness ==
    \E n, m \in BreakerCalls :
        /\ n < m
        /\ cb.history[n].found = "OPEN" /\ ~cb.history[n].ran /\ SinceLastFailure(n) = 60
        /\ cb.history[m].found = "OPEN" /\ cb.history[m].ran
        /\ cb.history[m].outcome = "returned"
        /\ cb.state = "CLOSED" /\ cb.failure_count = 0

\* C39. CircuitBreaker opens only on consecutive failures: it moves from
\* CLOSED to OPEN only when the last failure_threshold calls all failed; a
\* successful call in CLOSED resets the failure count.
C39_OpensOnConsecutiveFailures ==
    \A n \in BreakerCalls :
        LET e == cb.history[n]
        IN  /\ (e.found = "CLOSED" /\ e.left = "OPEN") =>
                   /\ n >= failure_threshold
                   /\ \A k \in (n - failure_threshold + 1)..n : cb.history[k].outcome = "raised"
            /\ (e.found = "CLOSED" /\ e.outcome = "returned") => e.count = 0

====
